---- MODULE Spec2Model ----
(***************************************************************************)
(* Model of the mqtt_dmx service: the Art-Net manager with its effect      *)
(* runtime nodes (Delay, Fade, Sequence, Parallel), and the Array manager  *)
(* with light-group expansion and array validation.                        *)
(*                                                                         *)
(* Options (Rust Option<T>) are sequences: <<>> is None, <<v>> is Some(v); *)
(* an Option<(u8,u8,u8)> is <<>> or <<a,b,c>>.  A Vec is a sequence, a     *)
(* HashMap a function whose DOMAIN is its key set.  Byte offsets of the    *)
(* source are 0-based, sequence indices 1-based: offset o is index o+1.    *)
(***************************************************************************)
EXTENDS Integers, Sequences, FiniteSets, TLC

VARIABLES
    universes,        \* ArtnetManager.universes: universe id -> Universe
    controllers,      \* ArtnetManager.controllers: the IPs with an entry
    active_effects,   \* ArtnetManager.active_effects: effect id -> runtime
    artnet_alive,     \* the Art-Net manager task has not panicked
    artnet_op,        \* history: the last operation of the manager, its result
    next_inst,        \* history: the number the next effect started gets
    superseded,       \* history: the effects replaced or stopped
    stale_ticked,     \* history: a superseded effect was ticked
    done_ticked,      \* history: an effect that was done was ticked
    set_channel_log,  \* history: the SetChannel calls of effects, in order
    arith_overflow,   \* history: some u8 addition or subtraction wrapped
    node,             \* the runtime node driven on its own (as tests::run_node)
    node_ticks,       \* history: number of tick() calls made on node
    tick_result,      \* outcome of the last tick() call on node
    init_universes,   \* history: universes when node was created
    channel_delta,    \* a DmxChannelDelta ticked on its own (<<>>: none)
    delta_case,       \* history: the arguments channel_delta was created with
    arrays,           \* ArrayManager.arrays: array id -> DmxArray
    global_effects,   \* ArrayManager.effects: the ids of the global effects
    array_alive,      \* the Array manager task has not panicked
    array_request,    \* the request in flight to the Array manager (<<>>: none)
    requests_left,    \* the number of requests that may still be sent
    array_reply,      \* history: the last request served and its result
    verified_lights,  \* history: the expansion of @all made by the last AddArray
    values,           \* ArrayManager.values: array id -> symbol table
    global_values,    \* ArrayManager.global_values: the global symbol table
    expanded,         \* history: the expand_values call made last, and its result
    dimmed,           \* history: the get_dimmed_value call made last, and its result
    added,            \* history: universe id -> the definition it was added with
    unsent,           \* history: universe the manager was set up with -> whether it
                      \* was written to, and the ticks run, since it was last sent
    subscriber,       \* MqttSubscriber: the broker message handled last or being
                      \* handled, the request handle_message awaits the reply of,
                      \* and (history) the requests sent, the replies and the result
    manager_request,  \* the request in flight from the subscriber to a manager
    manager_reply,    \* the reply in flight from a manager to the subscriber
    publisher_queue,  \* the Error events sent to the publisher and not yet
                      \* published on both topics
    published,        \* history: the publications the publisher made
    messages_left,    \* the number of broker messages that may still arrive
    run_loop,         \* ArtnetManager::run: where the loop is, and the effects a
                      \* tick under way has taken and not yet ticked
    cancelled,        \* the cancellation token was cancelled
    request_queue,    \* the requests of the MQTT client the event loop has not
                      \* yet taken
    publisher         \* mqtt_publisher::session: where its loop is, and the
                      \* Error event it took and is publishing

vars == <<universes, controllers, active_effects, artnet_alive, artnet_op, next_inst,
          superseded, stale_ticked, done_ticked, set_channel_log, arith_overflow,
          node, node_ticks, tick_result, init_universes, channel_delta, delta_case,
          arrays, global_effects, array_alive, array_request, requests_left, array_reply,
          verified_lights, values, global_values, expanded, dimmed, added, unsent,
          subscriber, manager_request, manager_reply, publisher_queue, published,
          messages_left, run_loop, cancelled, request_queue, publisher>>

(***************************************************************************)
(* Bounds of the model.                                                    *)
(***************************************************************************)
MaxTicks == 3          \* largest tick count of a Fade or Delay
ExtraTicks == 1        \* tick() calls made on a node after its last tick
FrameChannels == 4     \* channels of the universes of the model
FadeTicks == 2         \* tick count of the Fade started as an effect
MaxStarts == 2         \* effects started in one behaviour
MaxSends == 1          \* Send requests served per universe
MaxEntries == 2        \* entries of a generated lights expression
MaxRequests == 3       \* catalogue requests sent to the Array manager
MaxDimmingAmount == 1100  \* largest dimming amount of a command
MaxValueLen == 5       \* characters of a text given to expand_values
CommandChannels == 6   \* channels of the universe the Set command writes to
MaxChildren == 3       \* children of a Sequence ticked on its own
MaxMessages == 2       \* broker messages delivered in one behaviour
MaxBurst == 18         \* broker messages delivered in one MQTT session

(***************************************************************************)
(* Program constants.                                                      *)
(***************************************************************************)
DMX_DATA_OFFSET == 18
DMX_SEQ_OFFSET == 12
ARTNET_OPCODE_OUTPUT == 20480
U8_MODULUS == 256
DIMMING_AMOUNT_MAX == 1000
DIMMING_DIVISOR == 1000
\* Ticks after which a universe that was not written to is sent again.
SEND_UNMODIFIED_UNIVERSE_EVERY == 80
\* Capacity of the channel to the MQTT publisher.
QUEUE_DEPTH == 10
\* Capacity of the request queue of the MQTT client (AsyncClient::new).
CLIENT_REQUEST_CAPACITY == 10

Bytes == 0 .. (U8_MODULUS - 1)

Min(a, b) == IF a <= b THEN a ELSE b
Max(a, b) == IF a >= b THEN a ELSE b

(***************************************************************************)
(* Universe (artnet_manager/manager.rs).                                   *)
(***************************************************************************)
Zeros(n) == [i \in 1 .. n |-> 0]

\* Universe::new: the definition is checked, then the 18 byte header and the
\* zeroed DMX region (channel count rounded up to even) are assembled.
UniverseNewOk(definition) ==
    /\ definition.universe <= 15
    /\ definition.subnet <= 15
    /\ definition.net <= 127
    /\ definition.channels <= 512

\* Universe::new without the rounding of the channel count.
UniverseNewNotRounded(controller, definition) ==
    [controller |-> controller,
     packet_bytes |->
         <<65, 114, 116, 45, 78, 101, 116, 0,
           ARTNET_OPCODE_OUTPUT % 256, ARTNET_OPCODE_OUTPUT \div 256,
           0, 20, 0, 0,
           (definition.subnet * 16 + definition.universe) % U8_MODULUS,
           definition.net,
           (definition.channels \div 256) % U8_MODULUS, definition.channels % 256>>
         \o Zeros(definition.channels)]

UniverseNew(controller, definition) ==
    LET channel_count == ((definition.channels + 1) \div 2) * 2
    IN  [controller |-> controller,
         packet_bytes |->
             <<65, 114, 116, 45, 78, 101, 116, 0,
               ARTNET_OPCODE_OUTPUT % 256, ARTNET_OPCODE_OUTPUT \div 256,
               0, 20, 0, 0,
               (definition.subnet * 16 + definition.universe) % U8_MODULUS,
               definition.net,
               (channel_count \div 256) % U8_MODULUS, channel_count % 256>>
             \o Zeros(channel_count)]

ValueBytes(channel_type) == IF channel_type = "Single" THEN 1 ELSE 3

\* The check of Universe::set_channel made on the first byte written only.
FirstByteInside(u, v) ==
    DMX_DATA_OFFSET + v.channel + 1 <= Len(u.packet_bytes)

\* Universe::set_channel: Ok iff every byte written lies inside the packet.
UniverseSetChannelOk(u, v) ==
    DMX_DATA_OFFSET + v.channel + ValueBytes(v.channel_type) <= Len(u.packet_bytes)

UniverseSetChannel(u, v) ==
    LET offset == DMX_DATA_OFFSET + v.channel
    IN  [u EXCEPT !.packet_bytes =
            [i \in 1 .. Len(u.packet_bytes) |->
                IF i - 1 >= offset /\ i - 1 < offset + ValueBytes(v.channel_type)
                THEN v.value[i - offset]
                ELSE u.packet_bytes[i]]]

\* Universe::get_channel: Ok iff every byte read lies inside the packet.
UniverseGetChannelOk(u, cd) ==
    DMX_DATA_OFFSET + cd.channel + ValueBytes(cd.channel_type) <= Len(u.packet_bytes)

UniverseGetChannel(u, cd) ==
    LET offset == DMX_DATA_OFFSET + cd.channel
    IN  [channel |-> cd.channel, channel_type |-> cd.channel_type,
         value |-> [k \in 1 .. ValueBytes(cd.channel_type) |->
                        u.packet_bytes[offset + k]]]

\* ArtnetManager::set_channel / get_channel on the universes map.
SetChannelOk(univs, universe_id, v) ==
    /\ universe_id \in DOMAIN univs
    /\ UniverseSetChannelOk(univs[universe_id], v)

SetChannel(univs, universe_id, v) ==
    [univs EXCEPT ![universe_id] = UniverseSetChannel(univs[universe_id], v)]

GetChannelOk(univs, universe_id, cd) ==
    /\ universe_id \in DOMAIN univs
    /\ UniverseGetChannelOk(univs[universe_id], cd)

GetChannel(univs, universe_id, cd) == UniverseGetChannel(univs[universe_id], cd)

(***************************************************************************)
(* DmxChannelDelta (artnet_manager/runtime_nodes.rs).                      *)
(***************************************************************************)
\* DmxChannelDelta::new; the caller guarantees ticks > 0 (ticks = 0 divides
\* by zero, which panics).
DmxChannelDeltaNew(current_value, target_value, ticks) ==
    LET is_increment == target_value > current_value
        diff == IF is_increment THEN target_value - current_value
                                ELSE current_value - target_value
        delta == (diff \div ticks) % U8_MODULUS
        left_over == (diff - delta * ticks) % U8_MODULUS
        dx == ticks * 2          \* u32; no wrap for the tick counts modelled
        dy == left_over * 2
    IN  [value |-> current_value,
         is_increment |-> is_increment,
         delta |-> delta,
         dx |-> dx,
         dy |-> dy,
         fraction |-> dy - (dx \div 2)]

\* The unwrapped values value takes inside one DmxChannelDelta::tick.
DeltaStep1(d) == IF d.is_increment THEN d.value + d.delta ELSE d.value - d.delta

DeltaStep2(d) ==
    IF d.fraction >= 0
    THEN (IF d.is_increment THEN (DeltaStep1(d) % U8_MODULUS) + 1
                            ELSE (DeltaStep1(d) % U8_MODULUS) - 1)
    ELSE DeltaStep1(d) % U8_MODULUS

\* A tick that adds delta only and never the extra unit of the error term.
DmxChannelDeltaTickNoCarry(d) ==
    [d EXCEPT !.value = DeltaStep1(d) % U8_MODULUS]

\* DmxChannelDelta::tick, u8 arithmetic wrapping.
DmxChannelDeltaTick(d) ==
    [d EXCEPT !.value = DeltaStep2(d) % U8_MODULUS,
              !.fraction = (IF d.fraction >= 0 THEN d.fraction - d.dx
                                               ELSE d.fraction) + d.dy]

\* Some u8 operation of DmxChannelDelta::tick leaves 0..255.
DeltaTickOverflows(d) ==
    \/ DeltaStep1(d) \notin Bytes
    \/ DeltaStep2(d) \notin Bytes

\* DmxChannelDelta::is_fade_needed
DeltaIsFadeNeeded(d) == d.delta > 0 \/ d.dy > 0

(***************************************************************************)
(* Effect runtime nodes (artnet_manager/runtime_nodes.rs).  Every node is  *)
(* a record with the same fields; kind tells which of them are in use.     *)
(***************************************************************************)
NoTarget == [single |-> <<>>, rgb |-> <<>>, tri_white |-> <<>>]

\* The scaling of one component with the quotient rounded to the nearest.
DimmedByteRounded(b, dimming_amount) ==
    ((b * dimming_amount + (DIMMING_DIVISOR \div 2)) \div DIMMING_DIVISOR) % U8_MODULUS

\* The scaling get_dimmed_value applies to one component: the product is
\* divided in usize and `as u8` keeps its low byte.
DimmedByte(b, dimming_amount) == ((b * dimming_amount) \div DIMMING_DIVISOR) % U8_MODULUS

\* TargetValue::get_dimmed_value
get_dimmed_value(target, dimming_amount) ==
    [single |-> [i \in DOMAIN target.single |-> DimmedByte(target.single[i], dimming_amount)],
     rgb |-> [i \in DOMAIN target.rgb |-> DimmedByte(target.rgb[i], dimming_amount)],
     tri_white |->
         [i \in DOMAIN target.tri_white |-> DimmedByte(target.tri_white[i], dimming_amount)]]

\* DelayEffectNodeDefinition::get_runtime_node
DelayEffectNode(ticks) ==
    [kind |-> "Delay", ticks |-> ticks, current_tick |-> 0, nodes |-> <<>>,
     current_node |-> 0, lights |-> <<>>, target |-> NoTarget, state |-> <<>>]

\* FadeEffectNodeDefinition::get_runtime_node, after lights, ticks and the
\* (dimmed) target were resolved.
FadeEffectNode(lights, ticks, target) ==
    [kind |-> "Fade", ticks |-> ticks, current_tick |-> 0, nodes |-> <<>>,
     current_node |-> 0, lights |-> lights, target |-> target, state |-> <<>>]

\* SequenceEffectNodeDefinition::get_runtime_node
SequenceEffectNode(nodes) ==
    [kind |-> "Sequence", ticks |-> 0, current_tick |-> 0, nodes |-> nodes,
     current_node |-> 0, lights |-> <<>>, target |-> NoTarget, state |-> <<>>]

\* ParallelEffectNodeDefinition::get_runtime_node
ParallelEffectNode(nodes) ==
    [kind |-> "Parallel", ticks |-> 0, current_tick |-> 0, nodes |-> nodes,
     current_node |-> 0, lights |-> <<>>, target |-> NoTarget, state |-> <<>>]

\* EffectNodeRuntime::is_done of the four node types.
RECURSIVE IsDone(_)
IsDone(n) ==
    CASE n.kind = "Sequence" -> n.current_node >= Len(n.nodes)
      [] n.kind = "Parallel" -> \A i \in 1 .. Len(n.nodes) : IsDone(n.nodes[i])
      [] OTHER -> n.current_tick >= n.ticks

\* The family of the target a channel of the given type takes its value from
\* (the match of FadeEffectNode::initialize_channel_state).
TargetFor(target, channel_type) ==
    CASE channel_type = "Rgb" -> target.rgb
      [] channel_type = "TriWhite" -> target.tri_white
      [] OTHER -> target.single

\* The channels of the lights of a Fade in the order initialize_state visits
\* them, each with its universe id.
RECURSIVE FlatLights(_)
FlatLights(lights) ==
    IF lights = <<>> THEN <<>>
    ELSE [i \in 1 .. Len(lights[1].channels) |->
             [universe_id |-> lights[1].universe_id, channel |-> lights[1].channels[i]]]
         \o FlatLights(Tail(lights))

\* Outcome of initialize_channel_state for one channel: "error" when
\* get_channel fails, "none" when the target has no value for the family,
\* "panic" when DmxChannelDelta::new divides by ticks = 0, else "some".
InitChannelStatus(n, univs, universe_id, cd) ==
    IF ~GetChannelOk(univs, universe_id, cd) THEN "error"
    ELSE IF TargetFor(n.target, cd.channel_type) = <<>> THEN "none"
    ELSE IF n.ticks = 0 THEN "panic"
    ELSE "some"

\* initialize_channel_state taking every current value as 0 and not as the
\* universe holds it.
InitializeChannelStateFromZero(n, univs, universe_id, cd) ==
    LET target == TargetFor(n.target, cd.channel_type)
    IN  [channel |-> cd,
         value |-> [k \in 1 .. ValueBytes(cd.channel_type) |->
                        DmxChannelDeltaNew(0, target[k], n.ticks)]]

\* FadeEffectNode::initialize_channel_state when it returns Some(state).
InitializeChannelState(n, univs, universe_id, cd) ==
    LET current == GetChannel(univs, universe_id, cd).value
        target == TargetFor(n.target, cd.channel_type)
    IN  [channel |-> cd,
         value |-> [k \in 1 .. ValueBytes(cd.channel_type) |->
                        DmxChannelDeltaNew(current[k], target[k], n.ticks)]]

\* Outcome of FadeEffectNode::initialize_state: that of the first channel, in
\* visiting order, that fails or panics; "ok" when none does.
InitializeStateStatus(n, univs) ==
    LET flat == FlatLights(n.lights)
        st(i) == InitChannelStatus(n, univs, flat[i].universe_id, flat[i].channel)
        bad == {i \in 1 .. Len(flat) : st(i) \in {"error", "panic"}}
    IN  IF bad = {} THEN "ok"
        ELSE st(CHOOSE i \in bad : \A j \in bad : i <= j)

\* initialize_universe_state giving every channel a state, a channel whose
\* family the target lacks fading to zeros in at least one tick.
InitializeUniverseStateOfEveryChannel(n, univs, universe) ==
    [i \in 1 .. Len(universe.channels) |->
        LET cd == universe.channels[i]
            zeros == [NoTarget EXCEPT !.single = Zeros(1), !.rgb = Zeros(3),
                                      !.tri_white = Zeros(3)]
        IN  InitializeChannelState(
                IF TargetFor(n.target, cd.channel_type) = <<>>
                THEN [n EXCEPT !.target = zeros, !.ticks = Max(@, 1)] ELSE n,
                univs, universe.universe_id, cd)]

\* FadeEffectNode::initialize_universe_state: the states of the channels the
\* target has a value for, in order.
InitializeUniverseState(n, univs, universe) ==
    LET used == SelectSeq(universe.channels,
                    LAMBDA cd : TargetFor(n.target, cd.channel_type) /= <<>>)
    IN  [i \in 1 .. Len(used) |->
            InitializeChannelState(n, univs, universe.universe_id, used[i])]

\* FadeEffectNode::initialize_state when it returns Ok.
InitializeState(n, univs) ==
    [universe_states |->
        [u \in 1 .. Len(n.lights) |->
            [universe_id |-> n.lights[u].universe_id,
             channel_states |-> InitializeUniverseState(n, univs, n.lights[u])]]]

\* FadeEffectState::fade_needed
FadeNeeded(st) ==
    \E u \in 1 .. Len(st.universe_states) :
        \E c \in 1 .. Len(st.universe_states[u].channel_states) :
            \E k \in DOMAIN st.universe_states[u].channel_states[c].value :
                DeltaIsFadeNeeded(st.universe_states[u].channel_states[c].value[k])

\* The <<universe, channel>> index pairs of a fade state in the order the
\* loops of FadeEffectNode::tick visit them.
RECURSIVE Positions(_, _)
Positions(st, u) ==
    IF u > Len(st.universe_states) THEN <<>>
    ELSE [c \in 1 .. Len(st.universe_states[u].channel_states) |-> <<u, c>>]
         \o Positions(st, u + 1)

\* FadeEffectChannelState::get_channel_value
GetChannelValue(cs) ==
    [channel |-> cs.channel.channel, channel_type |-> cs.channel.channel_type,
     value |-> [k \in DOMAIN cs.value |-> cs.value[k].value]]

\* The loops of FadeEffectNode::tick: every channel state is ticked and
\* written; the first failing set_channel returns, keeping what was done.
RECURSIVE FadeWrite(_, _, _, _, _)
FadeWrite(st, univs, log, ovf, pos) ==
    IF pos = <<>>
    THEN [state |-> st, universes |-> univs, log |-> log, overflow |-> ovf, ok |-> TRUE]
    ELSE LET u == pos[1][1]
             c == pos[1][2]
             cs == st.universe_states[u].channel_states[c]
             ticked == [cs EXCEPT !.value =
                           [k \in DOMAIN cs.value |-> DmxChannelDeltaTick(cs.value[k])]]
             ovf2 == ovf \/ \E k \in DOMAIN cs.value : DeltaTickOverflows(cs.value[k])
             st2 == [st EXCEPT !.universe_states[u].channel_states[c] = ticked]
             uid == st.universe_states[u].universe_id
             v == GetChannelValue(ticked)
             log2 == Append(log, [universe_id |-> uid, channel_value |-> v])
         IN  IF SetChannelOk(univs, uid, v)
             THEN FadeWrite(st2, SetChannel(univs, uid, v), log2, ovf2, Tail(pos))
             ELSE [state |-> st2, universes |-> univs, log |-> log2,
                   overflow |-> ovf2, ok |-> FALSE]

TickResult(n, univs, log, ovf, status) ==
    [node |-> n, universes |-> univs, log |-> log, overflow |-> ovf, status |-> status]

\* FadeEffectNode::tick
FadeTick(n, univs, log, ovf) ==
    LET init_status == IF n.state = <<>> THEN InitializeStateStatus(n, univs) ELSE "ok"
    IN  IF init_status /= "ok" THEN TickResult(n, univs, log, ovf, init_status)
        ELSE LET n1 == IF n.state /= <<>> THEN n
                       ELSE IF ~FadeNeeded(InitializeState(n, univs))
                            THEN [n EXCEPT !.current_tick = n.ticks]
                            ELSE [n EXCEPT !.state = <<InitializeState(n, univs)>>]
             IN  IF n1.current_tick < n1.ticks
                 THEN LET w == FadeWrite(n1.state[1], univs, log, ovf,
                                         Positions(n1.state[1], 1))
                      IN  IF w.ok
                          THEN TickResult([n1 EXCEPT !.state = <<w.state>>,
                                                     !.current_tick = @ + 1],
                                          w.universes, w.log, w.overflow, "ok")
                          ELSE TickResult([n1 EXCEPT !.state = <<w.state>>],
                                          w.universes, w.log, w.overflow, "error")
                 ELSE TickResult(n1, univs, log, ovf, "ok")

\* DelayEffectNode::tick
DelayTick(n, univs, log, ovf) ==
    TickResult(IF n.current_tick < n.ticks THEN [n EXCEPT !.current_tick = @ + 1] ELSE n,
               univs, log, ovf, "ok")

RECURSIVE NodeTick(_, _, _, _)
RECURSIVE ParallelLoop(_, _, _, _, _)

\* The loop of ParallelEffectNode::tick that ends after its first child.
ParallelLoopFirstOnly(n, i, univs, log, ovf) ==
    IF i > Len(n.nodes) \/ i > 1 THEN TickResult(n, univs, log, ovf, "ok")
    ELSE LET r == NodeTick(n.nodes[i], univs, log, ovf)
         IN  TickResult([n EXCEPT !.nodes[i] = r.node], r.universes, r.log, r.overflow,
                        r.status)

\* The loop of ParallelEffectNode::tick from child i on; a failing child ends it.
ParallelLoop(n, i, univs, log, ovf) ==
    IF i > Len(n.nodes) THEN TickResult(n, univs, log, ovf, "ok")
    ELSE LET r == NodeTick(n.nodes[i], univs, log, ovf)
             n2 == [n EXCEPT !.nodes[i] = r.node]
         IN  IF r.status /= "ok"
             THEN TickResult(n2, r.universes, r.log, r.overflow, r.status)
             ELSE ParallelLoop(n2, i + 1, r.universes, r.log, r.overflow)

\* SequenceEffectNode::tick that moves on to the next child whether or not
\* the current one is done.
SequenceTickMovingOn(n, univs, log, ovf) ==
    IF n.current_node < Len(n.nodes)
    THEN LET r == NodeTick(n.nodes[n.current_node + 1], univs, log, ovf)
         IN  TickResult([n EXCEPT !.nodes[n.current_node + 1] = r.node,
                                  !.current_node = @ + 1],
                        r.universes, r.log, r.overflow, r.status)
    ELSE TickResult(n, univs, log, ovf, "ok")

\* SequenceEffectNode::tick
SequenceTick(n, univs, log, ovf) ==
    IF n.current_node < Len(n.nodes)
    THEN LET r == NodeTick(n.nodes[n.current_node + 1], univs, log, ovf)
             n2 == [n EXCEPT !.nodes[n.current_node + 1] = r.node]
         IN  IF r.status /= "ok"
             THEN TickResult(n2, r.universes, r.log, r.overflow, r.status)
             ELSE TickResult(IF IsDone(r.node) THEN [n2 EXCEPT !.current_node = @ + 1]
                                               ELSE n2,
                             r.universes, r.log, r.overflow, "ok")
    ELSE TickResult(n, univs, log, ovf, "ok")

\* EffectNodeRuntime::tick, dispatched on the node type.  status is "ok",
\* "error" (tick returned Err) or "panic".
NodeTick(n, univs, log, ovf) ==
    CASE n.kind = "Delay" -> DelayTick(n, univs, log, ovf)
      [] n.kind = "Fade" -> FadeTick(n, univs, log, ovf)
      [] n.kind = "Sequence" -> SequenceTick(n, univs, log, ovf)
      [] OTHER -> ParallelLoop(n, 1, univs, log, ovf)

(***************************************************************************)
(* ArtnetManager (artnet_manager/manager.rs).  universes and               *)
(* active_effects are maps held as functions; controllers is the set of    *)
(* the IPs the controller table has an entry for.  The Weak of an entry    *)
(* is live exactly while some universe holds the controller.               *)
(***************************************************************************)
ControllerLive(univs, ip) == \E u \in DOMAIN univs : univs[u].controller = ip

ArtnetResult(status, univs, ctrls) ==
    [status |-> status, universes |-> univs, controllers |-> ctrls]

\* ArtnetManager::add_universe; upgrade().unwrap() panics on a dead entry,
\* and ArtnetController::new fails when the socket cannot be set up
\* (socket_ok is FALSE).
add_universe(univs, ctrls, universe_id, definition, socket_ok) ==
    IF definition.controller \in ctrls /\ ~ControllerLive(univs, definition.controller)
    THEN ArtnetResult("panic", univs, ctrls)
    ELSE IF definition.controller \notin ctrls /\ ~socket_ok
    THEN ArtnetResult("IoError", univs, ctrls)
    ELSE LET ctrls2 == ctrls \cup {definition.controller}
         IN  IF ~UniverseNewOk(definition)
             THEN ArtnetResult("InvalidDefinition", univs, ctrls2)
             ELSE ArtnetResult("Ok",
                      [u \in DOMAIN univs \cup {universe_id} |->
                          IF u = universe_id
                          THEN UniverseNew(definition.controller, definition)
                          ELSE univs[u]],
                      ctrls2)

\* ArtnetManager::remove_universe; the entries whose Weak is dead are dropped.
remove_universe(univs, ctrls, universe_id) ==
    IF universe_id \notin DOMAIN univs
    THEN ArtnetResult("InvalidUniverse", univs, ctrls)
    ELSE LET univs2 == [u \in DOMAIN univs \ {universe_id} |-> univs[u]]
         IN  ArtnetResult("Ok", univs2, {ip \in ctrls : ControllerLive(univs2, ip)})

\* HashMap::entry(..).or_insert(..): an effect already active under the id
\* is kept.
start_effect_keeping(effects, effect_id, effect) ==
    IF effect_id \in DOMAIN effects THEN effects
    ELSE [k \in DOMAIN effects \cup {effect_id} |->
             IF k = effect_id THEN effect ELSE effects[k]]

\* ArtnetManager::start_effect
start_effect(effects, effect_id, effect) ==
    [k \in DOMAIN effects \cup {effect_id} |-> IF k = effect_id THEN effect ELSE effects[k]]

\* stop_effect that removes every effect.
StopEveryEffect(effects, effect_id) == <<>>

\* ArtnetManager::stop_effect
stop_effect(effects, effect_id) == [k \in DOMAIN effects \ {effect_id} |-> effects[k]]

\* The loop of ArtnetManager::tick over the effects in the given order: the
\* first tick that fails ends it.  ticked lists the effects whose tick was
\* called.  TickedEffect is the rest of the loop once the first effect of
\* the order has been ticked with result r.
RECURSIVE TickEffects(_, _, _, _, _, _)
RECURSIVE TickedEffect(_, _, _, _)
TickedEffect(order, effects, ticked, r) ==
    IF r.status /= "ok"
    THEN [effects |-> [effects EXCEPT ![order[1]].effect = r.node],
          universes |-> r.universes, log |-> r.log, overflow |-> r.overflow,
          status |-> r.status, ticked |-> Append(ticked, order[1])]
    ELSE TickEffects(Tail(order), [effects EXCEPT ![order[1]].effect = r.node],
                     r.universes, r.log, r.overflow, Append(ticked, order[1]))

TickEffects(order, effects, univs, log, ovf, ticked) ==
    IF order = <<>>
    THEN [effects |-> effects, universes |-> univs, log |-> log, overflow |-> ovf,
          status |-> "ok", ticked |-> ticked]
    ELSE TickedEffect(order, effects, ticked,
                      NodeTick(effects[order[1]].effect, univs, log, ovf))

\* The map ArtnetManager::tick leaves in active_effects: the effects it took
\* are moved back only when every tick succeeded.
EffectsAfterTick(r) == IF r.status = "ok" THEN r.effects ELSE <<>>

\* ArtnetManager::set_channels: the values are written in order up to the
\* first one that fails.
RECURSIVE set_channels(_, _, _)
set_channels(univs, universe_id, channel_value_list) ==
    IF channel_value_list = <<>> THEN [status |-> "Ok", universes |-> univs]
    ELSE IF universe_id \notin DOMAIN univs
         THEN [status |-> "InvalidUniverse", universes |-> univs]
    ELSE IF ~SetChannelOk(univs, universe_id, channel_value_list[1])
         THEN [status |-> "InvalidChannel", universes |-> univs]
    ELSE set_channels(SetChannel(univs, universe_id, channel_value_list[1]),
                      universe_id, Tail(channel_value_list))

\* ArtnetManager::get_channels: the status of the first read that fails.
get_channels(univs, universe_id, channel_definitions) ==
    IF channel_definitions = <<>> THEN "Ok"
    ELSE IF universe_id \notin DOMAIN univs THEN "InvalidUniverse"
    ELSE IF \E i \in DOMAIN channel_definitions :
                ~GetChannelOk(univs, universe_id, channel_definitions[i])
         THEN "InvalidChannel"
    ELSE "Ok"

\* Universe::send: the packet is handed to the socket and the sequence byte
\* is incremented.
(***************************************************************************)
(* The Set command.  A target arrives as the dimmer values its text names, *)
(* s(n), rgb(r,g,b) and w(w1,w2,w3), in the order of the text.             *)
(***************************************************************************)
DimmerValue(channel_type, value) == [channel_type |-> channel_type, value |-> value]

\* The fold of TargetValue::from_str over the dimmer values parsed: a family
\* named twice is an error.
RECURSIVE TargetFromValues(_, _)
TargetFromValues(target_value, dimmer_values) ==
    IF dimmer_values = <<>> THEN [status |-> "Ok", target |-> target_value]
    ELSE LET family == CASE dimmer_values[1].channel_type = "Rgb" -> "rgb"
                         [] dimmer_values[1].channel_type = "TriWhite" -> "tri_white"
                         [] OTHER -> "single"
         IN  IF target_value[family] /= <<>>
             THEN [status |-> "AmbiguousTargetValue", target |-> target_value]
             ELSE TargetFromValues([target_value EXCEPT ![family] = dimmer_values[1].value],
                                   Tail(dimmer_values))

\* TargetValue::get that answers a family the target lacks with zeros.
TargetGetOrZeros(target, channel_definition) ==
    IF TargetFor(target, channel_definition.channel_type) /= <<>>
    THEN TargetFor(target, channel_definition.channel_type)
    ELSE Zeros(ValueBytes(channel_definition.channel_type))

\* TargetValue::get: the value of the family of the channel, None (the empty
\* sequence) if the target has none.
TargetGet(target, channel_definition) ==
    TargetFor(target, channel_definition.channel_type)

\* The loop of the Set command over the channels listed: the value of the
\* family of the channel is looked up in the target and written.
RECURSIVE SetTargetChannels(_, _, _, _)
SetTargetChannels(univs, universe_id, channels, target) ==
    IF channels = <<>> THEN [status |-> "Ok", universes |-> univs]
    ELSE LET value == TargetGet(target, channels[1])
             v == [channel |-> channels[1].channel,
                   channel_type |-> channels[1].channel_type, value |-> value]
         IN  IF value = <<>>
             THEN [status |-> "MissingTargetValue", universes |-> univs]
             ELSE IF universe_id \notin DOMAIN univs
             THEN [status |-> "InvalidUniverse", universes |-> univs]
             ELSE IF ~SetChannelOk(univs, universe_id, v)
             THEN [status |-> "InvalidChannel", universes |-> univs]
             ELSE SetTargetChannels(SetChannel(univs, universe_id, v), universe_id,
                                    Tail(channels), target)

\* The Set command of the Art-Net manager: the target is parsed, scaled by
\* the dimming amount if one is given, and written to the channels.
set_channels_command(univs, parameters) ==
    LET parsed == TargetFromValues(NoTarget, parameters.target)
    IN  IF parsed.status /= "Ok" THEN [status |-> parsed.status, universes |-> univs]
        ELSE SetTargetChannels(univs, parameters.universe_id, parameters.channels,
                 IF parameters.dimming_amount = <<>> THEN parsed.target
                 ELSE get_dimmed_value(parsed.target, parameters.dimming_amount[1]))

UniverseSend(u) ==
    [u EXCEPT !.packet_bytes[DMX_SEQ_OFFSET + 1] = (@ + 1) % U8_MODULUS]

\* ArtnetManager::send.  The socket may refuse the packet (socket_ok is
\* FALSE), and += 1 on the sequence byte 255 panics in a build with
\* overflow checks and wraps in one without.
send(univs, universe_id, socket_ok, overflow_checks) ==
    IF universe_id \notin DOMAIN univs
    THEN [status |-> "InvalidUniverse", universes |-> univs]
    ELSE IF ~socket_ok THEN [status |-> "IoError", universes |-> univs]
    ELSE IF overflow_checks
            /\ univs[universe_id].packet_bytes[DMX_SEQ_OFFSET + 1] = U8_MODULUS - 1
    THEN [status |-> "panic", universes |-> univs]
    ELSE [status |-> "Ok",
          universes |-> [univs EXCEPT ![universe_id] = UniverseSend(@)]]

\* The orders in which the entries of a HashMap may be visited.
RECURSIVE Orders(_)
Orders(S) ==
    IF S = {} THEN {<<>>}
    ELSE UNION {{<<x>> \o o : o \in Orders(S \ {x})} : x \in S}

(***************************************************************************)
(* Light expressions (array_manager/lights.rs).  A lights expression is    *)
(* the sequence of its comma-separated entries; an entry is a channel      *)
(* definition, @group, $universe or text that parses as none of them.      *)
(***************************************************************************)
ChannelEntry(channel_type, channel) ==
    [kind |-> "channel", name |-> "", channel_type |-> channel_type, channel |-> channel]
GroupEntry(name) ==
    [kind |-> "group", name |-> name, channel_type |-> "", channel |-> 0]
UniverseEntry(universe_id) ==
    [kind |-> "universe", name |-> universe_id, channel_type |-> "", channel |-> 0]
InvalidEntry ==
    [kind |-> "invalid", name |-> "", channel_type |-> "", channel |-> 0]

\* The deepest expansion stack static_do_get_array_light_channels accepts.
EXPANSION_STACK_LIMIT == 5

\* The universe a nested expansion starts in: every call of
\* static_do_get_array_light_channels starts in the default universe of the
\* array, whatever the universe of the enclosing expression is.
EnclosingUniverseId(array, universe_id) == universe_id

NestedUniverseId(array, universe_id) == array.universe_id

\* result.entry(universe_id).or_insert_with(..).add(channel)
AddLightChannel(result, universe_id, channel) ==
    [u \in DOMAIN result \cup {universe_id} |->
        IF u = universe_id
        THEN Append(IF u \in DOMAIN result THEN result[u] ELSE <<>>, channel)
        ELSE result[u]]

\* The error of an expansion, with the expansion stack its message lists.
LightsError(status, acc, stack) ==
    [status |-> status, result |-> acc.result, deepest |-> acc.deepest, stack |-> stack]

\* static_do_get_array_light_channels from entry i of lights_list on, the
\* current universe being universe_id.  acc.result is the map universe id ->
\* channels built so far, acc.deepest the largest stack length seen.  The
\* stack of the result is the one at the return: the one of the call, or the
\* one the error met.
RECURSIVE static_do_get_array_light_channels(_, _, _, _, _, _)
static_do_get_array_light_channels(array, lights_list, i, universe_id, acc, stack) ==
    IF i > Len(lights_list)
    THEN [status |-> "Ok", result |-> acc.result, deepest |-> acc.deepest, stack |-> stack]
    ELSE LET entry == lights_list[i]
         IN  CASE entry.kind = "group" ->
                    IF entry.name \notin DOMAIN array.lights
                    THEN LightsError("ArrayLightsNotFound", acc, stack)
                    ELSE LET nested_lights_list == array.lights[entry.name]
                             pushed == Append(stack, nested_lights_list)
                             acc2 == [acc EXCEPT !.deepest = Max(@, Len(pushed))]
                         IN  IF Len(pushed) > EXPANSION_STACK_LIMIT
                             THEN LightsError("ArrayLightsCircularReference", acc2, pushed)
                             ELSE LET r == static_do_get_array_light_channels(
                                               array, nested_lights_list, 1,
                                               NestedUniverseId(array, universe_id),
                                               acc2, pushed)
                                  IN  IF r.status /= "Ok" THEN r
                                      ELSE static_do_get_array_light_channels(
                                               array, lights_list, i + 1, universe_id,
                                               [result |-> r.result, deepest |-> r.deepest],
                                               stack)
               [] entry.kind = "universe" ->
                    static_do_get_array_light_channels(
                        array, lights_list, i + 1, entry.name, acc, stack)
               [] entry.kind = "channel" ->
                    static_do_get_array_light_channels(
                        array, lights_list, i + 1, universe_id,
                        [acc EXCEPT !.result =
                            AddLightChannel(@, universe_id,
                                [channel_type |-> entry.channel_type,
                                 channel |-> entry.channel])],
                        stack)
               [] OTHER -> LightsError("ArrayLightsInvalidChannelDefinition", acc, stack)

\* static_get_array_light_channels with a stack that does not hold the
\* starting expression.
StaticGetFromEmptyStack(array, lights_list) ==
    static_do_get_array_light_channels(
        array, lights_list, 1, array.universe_id,
        [result |-> <<>>, deepest |-> 0], <<>>)

\* static_get_array_light_channels: status "Ok" and the channels of every
\* universe (the Vec the code returns lists the universes in any order), or
\* the error.
static_get_array_light_channels(array, lights_list) ==
    static_do_get_array_light_channels(
        array, lights_list, 1, array.universe_id,
        [result |-> <<>>, deepest |-> 1], <<lights_list>>)

(***************************************************************************)
(* Array verification (array_manager/verify.rs).                           *)
(***************************************************************************)
\* verify_array_effects; manager_effects is ArrayManager.effects.
verify_array_effects(manager_effects, array) ==
    LET has_effect(effect_name) ==
            effect_name \in array.effects \/ effect_name \in manager_effects
        has_on_effect == has_effect("on")
        has_off_effect == has_effect("off")
        preset_error(p) ==
            IF p.on /= <<>> /\ ~has_effect(p.on[1]) THEN "ArrayPresetEffectNotFound"
            ELSE IF p.on = <<>> /\ ~has_on_effect THEN "ArrayPresetDefaultEffectNotFound"
            ELSE IF p.off /= <<>> /\ ~has_effect(p.off[1]) THEN "ArrayPresetEffectNotFound"
            ELSE IF p.off = <<>> /\ ~has_on_effect THEN "ArrayPresetDefaultEffectNotFound"
            ELSE "Ok"
        failing == {n \in 1 .. Len(array.presets) : preset_error(array.presets[n]) /= "Ok"}
    IN  IF array.presets = <<>> /\ ~has_on_effect /\ ~has_off_effect
        THEN "ArrayNoDefaultEffects"
        ELSE IF failing = {} THEN "Ok"
        ELSE preset_error(array.presets[CHOOSE n \in failing : \A m \in failing : n <= m])

\* The <<channel, usage>> pairs the match of add_light_usage makes of one
\* channel definition.
ChannelUsages(cd) ==
    CASE cd.channel_type = "Single" -> <<<<cd.channel, "S">>>>
      [] cd.channel_type = "Rgb" ->
            <<<<cd.channel, "R">>, <<cd.channel + 1, "G">>, <<cd.channel + 2, "B">>>>
      [] OTHER ->
            <<<<cd.channel, "W1">>, <<cd.channel + 1, "W2">>, <<cd.channel + 2, "W3">>>>

RECURSIVE UniverseChannelUsages(_)
UniverseChannelUsages(channels) ==
    IF channels = <<>> THEN <<>>
    ELSE ChannelUsages(channels[1]) \o UniverseChannelUsages(Tail(channels))

NeverMismatch(existing_usage, usage) == FALSE

\* The comparison of add_channel_usage.
UsageMismatch(existing_usage, usage) == existing_usage /= usage

IgnoreMustExist(must_exist) == FALSE

\* The must_exist test of add_channel_usage.
MustExist(must_exist) == must_exist

\* add_channel_usage applied to the pairs of one universe in order, up to the
\* first error; universe_usage maps channel -> usage.
RECURSIVE add_channel_usage(_, _, _)
add_channel_usage(universe_usage, pairs, must_exist) ==
    IF pairs = <<>> THEN [status |-> "Ok", universe_usage |-> universe_usage]
    ELSE LET channel == pairs[1][1]
             usage == pairs[1][2]
         IN  IF channel \in DOMAIN universe_usage
             THEN IF UsageMismatch(universe_usage[channel], usage)
                  THEN [status |-> "ArrayLightChannelUsageMismatch",
                        universe_usage |-> universe_usage]
                  ELSE add_channel_usage(universe_usage, Tail(pairs), must_exist)
             ELSE IF MustExist(must_exist)
                  THEN [status |-> "ArrayLightChannelNotInAllGroup",
                        universe_usage |-> universe_usage]
                  ELSE add_channel_usage(
                           [c \in DOMAIN universe_usage \cup {channel} |->
                               IF c = channel THEN usage ELSE universe_usage[c]],
                           Tail(pairs), must_exist)

\* add_light_usage: the universes of lights are visited in any order and the
\* first error ends the visit, so errors is the set of errors it may return
\* (empty: it returns Ok, and channel_usage is the usage map it leaves).
add_light_usage(channel_usage, must_exist, lights) ==
    LET universe_result(u) ==
            add_channel_usage(IF u \in DOMAIN channel_usage THEN channel_usage[u] ELSE <<>>,
                              UniverseChannelUsages(lights[u]), must_exist)
    IN  [errors |-> {universe_result(u).status : u \in DOMAIN lights} \ {"Ok"},
         channel_usage |->
            [u \in DOMAIN channel_usage \cup DOMAIN lights |->
                IF u \in DOMAIN lights THEN universe_result(u).universe_usage
                ELSE channel_usage[u]]]

NoGroups(array) == {}

\* The groups the loop of verify_array_lights expands: every group.
VerifiedGroups(array) == DOMAIN array.lights

\* verify_array_lights: the set of results it may return ({"Ok"} or the
\* errors; the groups of the array are visited in any order).
verify_array_lights(array) ==
    LET all_lights == static_get_array_light_channels(array, <<GroupEntry("all")>>)
        all_usage == add_light_usage(<<>>, FALSE, all_lights.result)
        group_errors(g) ==
            LET lights == static_get_array_light_channels(array, array.lights[g])
            IN  IF lights.status /= "Ok" THEN {lights.status}
                ELSE add_light_usage(all_usage.channel_usage, TRUE, lights.result).errors
        errors == UNION {group_errors(g) : g \in VerifiedGroups(array)}
    IN  IF all_lights.status /= "Ok" THEN {all_lights.status}
        ELSE IF all_usage.errors /= {} THEN all_usage.errors
        ELSE IF errors /= {} THEN errors
        ELSE {"Ok"}

\* verify_array
verify_array(manager_effects, array) ==
    IF verify_array_effects(manager_effects, array) /= "Ok"
    THEN {verify_array_effects(manager_effects, array)}
    ELSE verify_array_lights(array)

(***************************************************************************)
(* ArrayManager (array_manager/manager.rs).                                *)
(***************************************************************************)
\* HashMap::insert and HashMap::remove on a map held as a function.
MapInsert(map, key, value) ==
    [k \in DOMAIN map \cup {key} |-> IF k = key THEN value ELSE map[k]]

MapRemove(map, key) == [k \in DOMAIN map \ {key} |-> map[k]]

InsertUnverified(arrs, array_id, array, verified) == MapInsert(arrs, array_id, array)

\* ArrayManager::add_array, verify_array having returned verified: the
\* arrays it leaves.
add_array(arrs, array_id, array, verified) ==
    IF verified /= "Ok" THEN arrs ELSE MapInsert(arrs, array_id, array)

\* remove_array that removes every array.
RemoveEveryArray(arrs, name) == <<>>

\* ArrayManager::remove_array
remove_array(arrs, name) == MapRemove(arrs, name)

(***************************************************************************)
(* Effects (array_manager/effects.rs).  The global effects and the effects *)
(* of an array are held as the sets of their ids; a definition found is    *)
(* named by the table it was taken from.                                   *)
(***************************************************************************)
\* ArrayManager::add_effect
add_effect(effects, effect_id) == effects \cup {effect_id}

\* ArrayManager::remove_effect
remove_effect(effects, effect_id) == effects \ {effect_id}

ArrayEffect(effect_id) == [origin |-> "array", effect_id |-> effect_id]
GlobalEffect(effect_id) == [origin |-> "global", effect_id |-> effect_id]
\* default_on_effect, default_off_effect and default_dim_effect
DefaultEffect(usage) == [origin |-> "default", effect_id |-> usage]

\* The on, off or dim field of an array or of a preset.
UsageField(r, usage) ==
    CASE usage = "On" -> r.on
      [] usage = "Off" -> r.off
      [] OTHER -> r.dim

\* The lookup of get_effect_definition with the two tables taken in the
\* other order.
GlobalEffectFirst(arrs, effects, array_id, effect_id) ==
    IF effect_id \in effects THEN <<GlobalEffect(effect_id)>>
    ELSE IF effect_id \in arrs[array_id].effects THEN <<ArrayEffect(effect_id)>>
    ELSE <<>>

\* ArrayManager::get_effect_definition, the array being known to exist.
get_effect_definition(arrs, effects, array_id, effect_id) ==
    IF effect_id \in arrs[array_id].effects THEN <<ArrayEffect(effect_id)>>
    ELSE IF effect_id \in effects THEN <<GlobalEffect(effect_id)>>
    ELSE <<>>

\* ArrayManager::get_usage_effect_id
get_usage_effect_id(arrs, usage, array_id, preset_number) ==
    IF array_id \notin DOMAIN arrs THEN [status |-> "ArrayNotFound", effect_id |-> ""]
    ELSE LET array == arrs[array_id]
         IN  IF preset_number /= <<>>
             THEN IF preset_number[1] < Len(array.presets)
                  THEN LET preset_effect_id ==
                               UsageField(array.presets[preset_number[1] + 1], usage)
                       IN  [status |-> "Ok",
                            effect_id |-> IF preset_effect_id /= <<>> THEN preset_effect_id[1]
                                          ELSE UsageField(array, usage)]
                  ELSE [status |-> "ArrayPresetNotFound", effect_id |-> ""]
             ELSE [status |-> "Ok", effect_id |-> UsageField(array, usage)]

\* ArrayManager::get_usage_effect_definition
get_usage_effect_definition(arrs, effects, usage, array_id, preset_number) ==
    LET id == get_usage_effect_id(arrs, usage, array_id, preset_number)
    IN  IF id.status /= "Ok" THEN [status |-> id.status, definition |-> <<>>]
        ELSE LET found == get_effect_definition(arrs, effects, array_id, id.effect_id)
                 effect_definition ==
                     IF found /= <<>> THEN found
                     ELSE IF id.effect_id = UsageField(arrs[array_id], usage)
                          THEN <<DefaultEffect(usage)>>
                     ELSE <<>>
             IN  IF effect_definition = <<>>
                 THEN [status |-> "EffectNotFound", definition |-> <<>>]
                 ELSE [status |-> "Ok", definition |-> effect_definition]

(***************************************************************************)
(* Values (array_manager/values.rs).  A string is the sequence of its      *)
(* characters; a symbol table is a function from names to values.          *)
(***************************************************************************)
\* ArrayManager::set_array_value putting the value in a table of its own.
SetArrayValueAlone(vals, array_id, value_name, value) ==
    MapInsert(vals, array_id, MapInsert(<<>>, value_name, value))

\* ArrayManager::set_array_value
set_array_value(vals, array_id, value_name, value) ==
    MapInsert(vals, array_id,
              MapInsert(IF array_id \in DOMAIN vals THEN vals[array_id] ELSE <<>>,
                        value_name, value))

\* ArrayManager::initialize_array_values, the symbol table being visited in
\* the order names.
RECURSIVE initialize_array_values(_, _, _, _)
initialize_array_values(vals, array_id, symbol_table, names) ==
    IF names = <<>> THEN vals
    ELSE initialize_array_values(
             set_array_value(vals, array_id, names[1], symbol_table[names[1]]),
             array_id, symbol_table, Tail(names))

\* ArrayManager::set_global_value
set_global_value(globals, value_name, value) == MapInsert(globals, value_name, value)

\* ArrayManager::remove_global_value
remove_global_value(globals, value_name) == MapRemove(globals, value_name)

\* The lookup of get_value with the two tables taken in the other order.
GlobalFirst(vals, globals, array_id, value_name) ==
    IF value_name \in DOMAIN globals THEN <<globals[value_name]>>
    ELSE IF array_id \in DOMAIN vals /\ value_name \in DOMAIN vals[array_id]
         THEN <<vals[array_id][value_name]>>
    ELSE <<>>

\* The lookup of ArrayManager::get_value once the array is known to exist:
\* the array's table, then the global table.
LookupValue(vals, globals, array_id, value_name) ==
    IF array_id \in DOMAIN vals /\ value_name \in DOMAIN vals[array_id]
    THEN <<vals[array_id][value_name]>>
    ELSE IF value_name \in DOMAIN globals THEN <<globals[value_name]>>
    ELSE <<>>

\* ArrayManager::get_value
get_value(arrs, vals, globals, array_id, value_name) ==
    IF array_id \notin DOMAIN arrs THEN [status |-> "ArrayNotFound", value |-> <<>>]
    ELSE [status |-> "Ok", value |-> LookupValue(vals, globals, array_id, value_name)]

\* The character that encloses a value expression.
Backquote == "backquote"

\* str::find: the position of the first ch in str; 0 when there is none.
Find(str, ch) ==
    IF \E i \in DOMAIN str : str[i] = ch
    THEN CHOOSE i \in DOMAIN str : str[i] = ch /\ \A j \in 1..(i - 1) : str[j] /= ch
    ELSE 0

\* The name of a value expression: what precedes its first '='.
ValueName(expression) ==
    IF Find(expression, "=") = 0 THEN expression
    ELSE SubSeq(expression, 1, Find(expression, "=") - 1)

\* The default of a value expression: what follows its first '=', if any.
DefaultValue(expression) ==
    IF Find(expression, "=") = 0 THEN <<>>
    ELSE <<SubSeq(expression, Find(expression, "=") + 1, Len(expression))>>

ExpandResult(status, text) == [status |-> status, text |-> text]

\* What one value expression expands to: the value found, else the
\* default, else an error.
ExpandExpression(expression, found) ==
    IF found.status /= "Ok" THEN ExpandResult(found.status, <<>>)
    ELSE IF found.value /= <<>> THEN ExpandResult("Ok", found.value[1])
    ELSE IF DefaultValue(expression) /= <<>>
         THEN ExpandResult("Ok", DefaultValue(expression)[1])
    ELSE ExpandResult("ArrayValueNotFound", <<>>)

\* The loop of ArrayManager::expand_values: value is the text still to
\* expand, result the text produced so far.
RECURSIVE ExpandLoop(_, _, _, _, _, _)
RECURSIVE ExpandFrom(_, _, _, _, _, _)
RECURSIVE ExpandNext(_, _, _, _, _, _, _)
ExpandLoop(arrs, vals, globals, array_id, value, result) ==
    IF Find(value, Backquote) = 0 THEN ExpandResult("Ok", result \o value)
    ELSE ExpandFrom(arrs, vals, globals, array_id,
                    SubSeq(value, Find(value, Backquote) + 1, Len(value)),
                    result \o SubSeq(value, 1, Find(value, Backquote) - 1))

\* The loop body once the opening backquote was consumed.
ExpandFrom(arrs, vals, globals, array_id, value, result) ==
    IF Find(value, Backquote) = 0 THEN ExpandResult("ValueExpressionNotTerminated", <<>>)
    ELSE ExpandNext(arrs, vals, globals, array_id,
                    SubSeq(value, Find(value, Backquote) + 1, Len(value)), result,
                    ExpandExpression(
                        SubSeq(value, 1, Find(value, Backquote) - 1),
                        get_value(arrs, vals, globals, array_id,
                                  ValueName(SubSeq(value, 1, Find(value, Backquote) - 1)))))

\* The loop body once the expression was expanded.
ExpandNext(arrs, vals, globals, array_id, value, result, expansion) ==
    IF expansion.status /= "Ok" THEN expansion
    ELSE ExpandLoop(arrs, vals, globals, array_id, value, result \o expansion.text)

\* ArrayManager::expand_values
expand_values(arrs, vals, globals, array_id, unexpanded_value) ==
    ExpandLoop(arrs, vals, globals, array_id, unexpanded_value, <<>>)

(***************************************************************************)
(* Compilation of an effect definition (array_manager/effects.rs,          *)
(* artnet_manager/runtime_nodes.rs).  A Number or Variable is a record     *)
(* with one of its two fields set; the target of a Fade definition is held *)
(* as the target its text parses to when no value it refers to is bound.   *)
(***************************************************************************)
Number(n) == [number |-> <<n>>, variable |-> <<>>]
Variable(text) == [number |-> <<>>, variable |-> <<text>>]

Digits == <<"0", "1", "2", "3", "4", "5", "6", "7", "8", "9">>

\* usize::from_str: Ok for a text of decimal digits that is not empty.
ParsesAsUsize(text) ==
    text /= <<>> /\ \A i \in DOMAIN text : \E d \in DOMAIN Digits : Digits[d] = text[i]

RECURSIVE UsizeOf(_)
UsizeOf(text) ==
    IF text = <<>> THEN 0
    ELSE UsizeOf(SubSeq(text, 1, Len(text) - 1)) * Len(Digits)
         + (CHOOSE d \in DOMAIN Digits : Digits[d] = text[Len(text)]) - 1

\* NumberOrVariable::get_value
NumberOrVariableGetValue(arrs, vals, globals, array_id, ticks) ==
    IF ticks.number /= <<>> THEN [status |-> "Ok", value |-> ticks.number[1]]
    ELSE LET value == expand_values(arrs, vals, globals, array_id, ticks.variable[1])
         IN  IF value.status /= "Ok" THEN [status |-> value.status, value |-> 0]
             ELSE IF ~ParsesAsUsize(value.text) THEN [status |-> "ValueError", value |-> 0]
             ELSE [status |-> "Ok", value |-> UsizeOf(value.text)]

DelayDefinition(ticks) ==
    [type |-> "delay", lights |-> <<>>, ticks |-> ticks, target |-> NoTarget]
FadeDefinition(lights, ticks, target) ==
    [type |-> "fade", lights |-> lights, ticks |-> ticks, target |-> target]

\* The name of the value the default effect of a usage takes its ticks from.
UsageTicksName(usage) ==
    CASE usage = "On" -> <<"o", "n", "_", "t", "i", "c", "k", "s">>
      [] usage = "Off" -> <<"o", "f", "f", "_", "t", "i", "c", "k", "s">>
      [] OTHER -> <<"d", "i", "m", "_", "t", "i", "c", "k", "s">>

\* ArrayManager::new: the definitions of the three default effects.
default_effect(usage) ==
    FadeDefinition(
        <<GroupEntry("all")>>,
        Variable(<<Backquote>> \o UsageTicksName(usage) \o <<"=", "1", "0", Backquote>>),
        IF usage = "Off"
        THEN [single |-> <<0>>, rgb |-> <<0, 0, 0>>, tri_white |-> <<0, 0, 0>>]
        ELSE [single |-> <<U8_MODULUS - 1>>,
              rgb |-> <<U8_MODULUS - 1, U8_MODULUS - 1, U8_MODULUS - 1>>,
              tri_white |-> <<U8_MODULUS - 1, U8_MODULUS - 1, U8_MODULUS - 1>>])

\* The channels of get_array_light_channels as the Vec of
\* UniverseChannelDefinitions a Fade holds, the universes in the given order.
LightsOf(result, order) ==
    [i \in DOMAIN order |-> [universe_id |-> order[i], channels |-> result[order[i]]]]

\* DelayEffectNodeDefinition::get_runtime_node
DelayGetRuntimeNode(arrs, vals, globals, array_id, definition) ==
    LET ticks == NumberOrVariableGetValue(arrs, vals, globals, array_id, definition.ticks)
    IN  IF ticks.status /= "Ok" THEN {[status |-> ticks.status, node |-> <<>>]}
        ELSE {[status |-> "Ok", node |-> <<DelayEffectNode(ticks.value)>>]}

\* FadeEffectNodeDefinition::get_runtime_node; no_dimming is not set.
FadeGetRuntimeNode(arrs, vals, globals, array_id, definition, dimming_amount) ==
    LET lights == static_get_array_light_channels(arrs[array_id], definition.lights)
        ticks == NumberOrVariableGetValue(arrs, vals, globals, array_id, definition.ticks)
    IN  IF lights.status /= "Ok" THEN {[status |-> lights.status, node |-> <<>>]}
        ELSE IF ticks.status /= "Ok" THEN {[status |-> ticks.status, node |-> <<>>]}
        ELSE {[status |-> "Ok",
               node |-> <<FadeEffectNode(LightsOf(lights.result, order), ticks.value,
                                         get_dimmed_value(definition.target,
                                                          dimming_amount))>>] :
                 order \in Orders(DOMAIN lights.result)}

\* get_runtime_node leaving the target of a Fade as the definition gives it.
GetRuntimeNodeUndimmed(arrs, vals, globals, array_id, definition, dimming_amount) ==
    IF definition.type = "delay"
    THEN DelayGetRuntimeNode(arrs, vals, globals, array_id, definition)
    ELSE FadeGetRuntimeNode(arrs, vals, globals, array_id, definition, DIMMING_AMOUNT_MAX)

\* EffectNodeDefinition::get_runtime_node for a Delay or a Fade: the results
\* it may give.
get_runtime_node(arrs, vals, globals, array_id, definition, dimming_amount) ==
    IF definition.type = "delay"
    THEN DelayGetRuntimeNode(arrs, vals, globals, array_id, definition)
    ELSE FadeGetRuntimeNode(arrs, vals, globals, array_id, definition, dimming_amount)

\* The definition held under an effect id by an array or by the manager:
\* here every effect that is not a default one is a Delay of one tick.
EffectDefinitionOf(found) ==
    IF found.origin = "default" THEN default_effect(found.effect_id)
    ELSE DelayDefinition(Number(1))

\* ArrayManager::get_usage_effect_runtime: the results it may give.
get_usage_effect_runtime(arrs, effects, vals, globals, usage, array_id, preset_number, dim) ==
    LET found == get_usage_effect_definition(arrs, effects, usage, array_id, preset_number)
    IN  IF found.status /= "Ok" THEN {[status |-> found.status, node |-> <<>>]}
        ELSE get_runtime_node(arrs, vals, globals, array_id,
                              EffectDefinitionOf(found.definition[1]), dim)

(***************************************************************************)
(* Variable groups, and the states they have when nothing has used them.   *)
(***************************************************************************)
frame_vars == <<universes, set_channel_log, arith_overflow>>
node_vars == <<node, node_ticks, tick_result, init_universes, channel_delta, delta_case>>
manager_vars == <<controllers, active_effects, artnet_alive, artnet_op, next_inst,
                  superseded, stale_ticked, done_ticked>>
array_vars == <<arrays, global_effects, array_alive, array_request, requests_left,
                array_reply, verified_lights>>
value_vars == <<values, global_values, expanded>>
service_vars == <<subscriber, manager_request, manager_reply, publisher_queue, published,
                  messages_left, run_loop, cancelled, request_queue, publisher>>
later_vars == <<value_vars, dimmed, service_vars, added, unsent>>

NoNode == DelayEffectNode(0)

NoNodeDriven ==
    /\ node = NoNode
    /\ node_ticks = 0
    /\ tick_result = "ok"
    /\ init_universes = <<>>
    /\ channel_delta = <<>>
    /\ delta_case = <<>>

NoOp == [op |-> "", status |-> ""]

\* ArtnetManager::new, but for universes.
ArtnetManagerNew ==
    /\ controllers = {}
    /\ active_effects = <<>>
    /\ artnet_alive = TRUE
    /\ artnet_op = NoOp
    /\ next_inst = 1
    /\ superseded = {}
    /\ stale_ticked = FALSE
    /\ done_ticked = FALSE

\* No call recorded, no universe added.
IdleSubscriber ==
    [message |-> <<>>, stage |-> "", result |-> "", sent |-> <<>>, replies |-> <<>>]

AtSelect == [pc |-> "select", order |-> <<>>, taken |-> <<>>, failed |-> FALSE]

\* mqtt_publisher::session awaiting the next event.
AtRecv == [pc |-> "recv", message |-> ""]

\* The MQTT workers idle and no broker message to come; the run loop of the
\* Art-Net manager at its select.
NoService ==
    /\ subscriber = IdleSubscriber
    /\ manager_request = <<>>
    /\ manager_reply = <<>>
    /\ publisher_queue = <<>>
    /\ published = <<>>
    /\ messages_left = 0
    /\ run_loop = AtSelect
    /\ cancelled = FALSE
    /\ request_queue = <<>>
    /\ publisher = AtRecv

NoCalls ==
    /\ expanded = <<>>
    /\ dimmed = <<>>
    /\ added = <<>>
    /\ unsent = <<>>
    /\ NoService

\* ArrayManager::new, no request sent.
ArrayManagerNew ==
    /\ arrays = <<>>
    /\ global_effects = {}
    /\ array_alive = TRUE
    /\ array_reply = <<>>
    /\ verified_lights = <<>>
    /\ values = <<>>
    /\ global_values = <<>>
    /\ NoCalls

(***************************************************************************)
(* A runtime node driven on its own against an Art-Net manager, as         *)
(* tests::run_node does, except that tick() is also called on a node that  *)
(* is done, as ArtnetManager::tick does.                                   *)
(***************************************************************************)
ControllerIps == {"10.0.1.228", "10.0.1.229", "10.0.1.230"}

\* The universe definition of the tests, with the channel count of the model.
TestUniverseDefinition ==
    [controller |-> "10.0.1.228", net |-> 0, subnet |-> 0, universe |-> 0,
     channels |-> FrameChannels]

\* A universe whose DMX region starts with the given bytes.
UniverseWith(data) ==
    LET u == UniverseNew(TestUniverseDefinition.controller, TestUniverseDefinition)
    IN  [u EXCEPT !.packet_bytes =
            [i \in 1 .. Len(u.packet_bytes) |->
                IF i > DMX_DATA_OFFSET /\ i - DMX_DATA_OFFSET <= Len(data)
                THEN data[i - DMX_DATA_OFFSET] ELSE u.packet_bytes[i]]]

Single(c) == [channel_type |-> "Single", channel |-> c]
Rgb(c) == [channel_type |-> "Rgb", channel |-> c]
TriWhite(c) == [channel_type |-> "TriWhite", channel |-> c]

SampleBytes == {0, 2, U8_MODULUS - 1}
EndBytes == {0, U8_MODULUS - 1}
Opt(S) == {<<>>} \cup {<<x>> : x \in S}
Opt3(S) == {<<>>} \cup {<<x, y, z>> : x \in S, y \in S, z \in S}

\* The pairs of bytes of which one is an end of the range 0..255, and the
\* pairs of equal bytes: every distance in both directions, at both ends.
EdgePairs ==
    {<<s, e>> \in Bytes \X Bytes : s \in {0, U8_MODULUS - 1} \/ e \in {0, U8_MODULUS - 1} \/ s = e}

\* One Single channel, whose start or target byte is an end of the range.
FadeInitOneChannel ==
    \E p \in EdgePairs, n \in 1 .. MaxTicks :
        /\ universes = [u \in {"u0", "u1"} |-> UniverseWith(IF u = "u0" THEN <<p[1]>> ELSE <<>>)]
        /\ node = FadeEffectNode(<<[universe_id |-> "u0", channels |-> <<Single(0)>>]>>,
                                 n, [NoTarget EXCEPT !.single = <<p[2]>>])

\* A Single channel in one universe and an Rgb channel in another, sampled
\* bytes, targets that may lack a family, tick counts from 0.
FadeInitTwoUniverses ==
    \E s \in SampleBytes, c \in Opt3(EndBytes) \ {<<>>},
       ts \in Opt(SampleBytes), tc \in Opt3(EndBytes), n \in 0 .. MaxTicks :
        /\ universes = [u \in {"u0", "u1"} |-> UniverseWith(IF u = "u0" THEN <<s>> ELSE c)]
        /\ node = FadeEffectNode(<<[universe_id |-> "u0", channels |-> <<Single(0)>>],
                                   [universe_id |-> "u1", channels |-> <<Rgb(0)>>]>>,
                                 n, [NoTarget EXCEPT !.single = ts, !.rgb = tc])

\* A node and the universes it fades.
FadeInitNode ==
    /\ FadeInitOneChannel \/ FadeInitTwoUniverses
    /\ init_universes = universes
    /\ channel_delta = <<>>
    /\ delta_case = <<>>

\* A DmxChannelDelta on its own: every start byte, every target byte.
FadeInitDelta ==
    /\ \E s \in Bytes, e \in Bytes, n \in 1 .. MaxTicks :
        /\ channel_delta = <<DmxChannelDeltaNew(s, e, n)>>
        /\ delta_case = <<s, e, n>>
    /\ universes = <<>>
    /\ init_universes = <<>>
    /\ node = NoNode

FadeInit ==
    /\ FadeInitNode \/ FadeInitDelta
    /\ set_channel_log = <<>>
    /\ node_ticks = 0
    /\ tick_result = "ok"
    /\ arith_overflow = FALSE
    /\ ArtnetManagerNew
    /\ ArrayManagerNew
    /\ array_request = <<>>
    /\ requests_left = 0

\* The ticks a node needs to be done: those of its children one after the
\* other for a Sequence, those of its slowest child for a Parallel, its own
\* tick count otherwise.
RECURSIVE TicksNeeded(_)
TicksNeeded(n) ==
    IF n.kind \in {"Sequence", "Parallel"}
    THEN IF n.nodes = <<>> THEN 0
         ELSE IF n.kind = "Sequence"
         THEN TicksNeeded(n.nodes[1]) + TicksNeeded([n EXCEPT !.nodes = Tail(@)])
         ELSE Max(TicksNeeded(n.nodes[1]), TicksNeeded([n EXCEPT !.nodes = Tail(@)]))
    ELSE n.ticks

\* One call of node.tick(artnet_manager).
TickNode ==
    /\ channel_delta = <<>>
    /\ tick_result /= "panic"
    /\ node_ticks < TicksNeeded(node) + ExtraTicks
    /\ LET r == NodeTick(node, universes, set_channel_log, arith_overflow)
       IN  /\ node' = r.node
           /\ universes' = r.universes
           /\ set_channel_log' = r.log
           /\ arith_overflow' = r.overflow
           /\ tick_result' = r.status
    /\ node_ticks' = node_ticks + 1
    /\ UNCHANGED <<later_vars, init_universes, channel_delta, delta_case, manager_vars, array_vars>>

\* One call of DmxChannelDelta::tick, made as FadeEffectNode::tick makes it:
\* on each of the ticks of the fade.
TickDelta ==
    /\ channel_delta /= <<>>
    /\ node_ticks < delta_case[3]
    /\ channel_delta' = <<DmxChannelDeltaTick(channel_delta[1])>>
    /\ arith_overflow' = (arith_overflow \/ DeltaTickOverflows(channel_delta[1]))
    /\ node_ticks' = node_ticks + 1
    /\ UNCHANGED <<later_vars, universes, set_channel_log, node, tick_result, init_universes,
                   delta_case, manager_vars, array_vars>>

FadeNext == TickNode \/ TickDelta

\* The Sequences of up to MaxChildren Delays of 1 to MaxTicks ticks.
DelaySequences ==
    {SequenceEffectNode(nodes) :
        nodes \in UNION {[1 .. k -> {DelayEffectNode(n) : n \in 1 .. MaxTicks}] : k \in 0 .. MaxChildren}}

\* A Sequence of Delays about to be ticked on its own.
SequenceInit ==
    /\ node \in DelaySequences
    /\ universes = <<>>
    /\ init_universes = <<>>
    /\ channel_delta = <<>>
    /\ delta_case = <<>>
    /\ set_channel_log = <<>>
    /\ node_ticks = 0
    /\ tick_result = "ok"
    /\ arith_overflow = FALSE
    /\ ArtnetManagerNew
    /\ ArrayManagerNew
    /\ array_request = <<>>
    /\ requests_left = 0

SequenceNext == TickNode

\* The Parallels of up to MaxChildren Delays of 0 to MaxTicks ticks.
DelayParallels ==
    {ParallelEffectNode(nodes) :
        nodes \in UNION {[1 .. k -> {DelayEffectNode(n) : n \in 0 .. MaxTicks}] : k \in 0 .. MaxChildren}}

\* A node of the given set about to be ticked on its own, with no universe.
NodeAlone(nodes) ==
    /\ node \in nodes
    /\ universes = <<>>
    /\ init_universes = <<>>
    /\ channel_delta = <<>>
    /\ delta_case = <<>>
    /\ set_channel_log = <<>>
    /\ node_ticks = 0
    /\ tick_result = "ok"
    /\ arith_overflow = FALSE
    /\ ArtnetManagerNew
    /\ ArrayManagerNew
    /\ array_request = <<>>
    /\ requests_left = 0

ParallelInit == NodeAlone(DelayParallels)

ParallelNext == TickNode

ParallelSpec == ParallelInit /\ [][ParallelNext]_vars

SequenceSpec == SequenceInit /\ [][SequenceNext]_vars

FadeSpec == FadeInit /\ [][FadeNext]_vars

(***************************************************************************)
(* The Art-Net manager: its requests, and the calls of start_effect,       *)
(* stop_effect and tick.                                                   *)
(***************************************************************************)
UniverseIds == {"u0", "u1"}
EffectIds == {"a", "b"}

\* The effects started: a Delay, and a Fade of channel 0 of u0 to full.
StartedEffects ==
    {DelayEffectNode(1),
     FadeEffectNode(<<[universe_id |-> "u0", channels |-> <<Single(0)>>]>>, FadeTicks,
                    [NoTarget EXCEPT !.single = <<U8_MODULUS - 1>>])}

\* The channel values written by request: one inside the frame, one outside.
RequestValues ==
    {[channel |-> 0, channel_type |-> "Single", value |-> <<U8_MODULUS - 1>>],
     [channel |-> FrameChannels + 1, channel_type |-> "Single", value |-> <<1>>]}

\* The definitions sent to a manager of several universes: the one of the
\* tests, one of another controller, and one Universe::new rejects, of a
\* third controller.
ManagerDefinitions ==
    {TestUniverseDefinition,
     [controller |-> "10.0.1.229", net |-> 1, subnet |-> 2, universe |-> 3,
      channels |-> FrameChannels],
     [controller |-> "10.0.1.230", net |-> 0, subnet |-> 0, universe |-> 16,
      channels |-> FrameChannels]}

\* The definitions sent to a manager of one universe: the field values at
\* and next to the limits Universe::new checks, and odd, even, empty and
\* full channel counts.
UniverseDefinitions ==
    {TestUniverseDefinition,
     [controller |-> "10.0.1.229", net |-> 127, subnet |-> 15, universe |-> 15,
      channels |-> FrameChannels - 1],
     [controller |-> "10.0.1.228", net |-> 1, subnet |-> 2, universe |-> 3,
      channels |-> 512],
     [controller |-> "10.0.1.229", net |-> 0, subnet |-> 0, universe |-> 1,
      channels |-> 0],
     [controller |-> "10.0.1.230", net |-> 0, subnet |-> 0, universe |-> 16,
      channels |-> FrameChannels],
     [controller |-> "10.0.1.229", net |-> 0, subnet |-> 16, universe |-> 0,
      channels |-> FrameChannels],
     [controller |-> "10.0.1.228", net |-> 128, subnet |-> 0, universe |-> 0,
      channels |-> FrameChannels],
     [controller |-> "10.0.1.228", net |-> 0, subnet |-> 0, universe |-> 0,
      channels |-> 513]}

\* The channel values written to it: inside the frame of the tests, across
\* its end, and past it.
FrameValues ==
    {[channel |-> FrameChannels - 3, channel_type |-> "Rgb", value |-> <<1, 2, 3>>],
     [channel |-> FrameChannels - 2, channel_type |-> "TriWhite", value |-> <<4, 5, 6>>],
     [channel |-> FrameChannels, channel_type |-> "Single", value |-> <<7>>]}

\* The history of a universe that was just sent, or just set up.
JustSent == [written |-> FALSE, ticks |-> 0]

\* unsent after the universe was sent, or replaced by a new one.
UnsentReset(universe_id) ==
    [id \in DOMAIN unsent |-> IF id = universe_id THEN JustSent ELSE unsent[id]]

\* unsent after a set_channel of the universe succeeded.
UnsentWritten(universe_id) ==
    [id \in DOMAIN unsent |->
        IF id = universe_id THEN [unsent[id] EXCEPT !.written = TRUE] ELSE unsent[id]]

\* unsent after a tick whose effects made the set_channel calls new_log: one
\* more tick without a transmission, counted up to the period.
UnsentTicked(univs, new_log) ==
    [id \in DOMAIN unsent |->
        [written |-> unsent[id].written
                     \/ \E i \in DOMAIN new_log :
                            /\ new_log[i].universe_id = id
                            /\ SetChannelOk(univs, id, new_log[i].channel_value),
         ticks |-> Min(unsent[id].ticks + 1, SEND_UNMODIFIED_UNIVERSE_EVERY)]]

ArtnetInit ==
    /\ universes = <<>>
    /\ set_channel_log = <<>>
    /\ arith_overflow = FALSE
    /\ ArtnetManagerNew
    /\ NoNodeDriven
    /\ ArrayManagerNew
    /\ array_request = <<>>
    /\ requests_left = 0

\* What handle_message does after the request was served: the result is sent
\* to the requester, and unwrap() panics when the receiver was dropped.
ArtnetReply(op, status, receiver_dropped) ==
    /\ artnet_op' = [op |-> op, status |-> status]
    /\ artnet_alive' = (status /= "panic" /\ ~receiver_dropped)

AddUniverse(universe_id, definition, receiver_dropped) ==
    /\ artnet_alive
    /\ \E socket_ok \in BOOLEAN :
        LET r == add_universe(universes, controllers, universe_id, definition, socket_ok)
        IN  /\ universes' = r.universes
            /\ controllers' = r.controllers
            /\ added' = IF r.status = "Ok" THEN MapInsert(added, universe_id, definition)
                        ELSE added
            /\ unsent' = IF r.status = "Ok" THEN UnsentReset(universe_id) ELSE unsent
            /\ ArtnetReply("AddUniverse", r.status, receiver_dropped)
    /\ UNCHANGED <<value_vars, dimmed, service_vars, set_channel_log, arith_overflow, active_effects, next_inst, superseded,
                   stale_ticked, done_ticked, node_vars, array_vars>>

RemoveUniverse(universe_id, receiver_dropped) ==
    /\ artnet_alive
    /\ LET r == remove_universe(universes, controllers, universe_id)
       IN  /\ universes' = r.universes
           /\ controllers' = r.controllers
           /\ added' = IF r.status = "Ok" THEN MapRemove(added, universe_id) ELSE added
           /\ unsent' = IF r.status = "Ok" THEN MapRemove(unsent, universe_id) ELSE unsent
           /\ ArtnetReply("RemoveUniverse", r.status, receiver_dropped)
    /\ UNCHANGED <<value_vars, dimmed, service_vars, set_channel_log, arith_overflow, active_effects, next_inst, superseded,
                   stale_ticked, done_ticked, node_vars, array_vars>>

\* The SetChannel and SetChannels requests.
SetChannels(op, universe_id, channel_value_list, receiver_dropped) ==
    /\ artnet_alive
    /\ LET r == set_channels(universes, universe_id, channel_value_list)
       IN  /\ universes' = r.universes
           /\ unsent' = IF SetChannelOk(universes, universe_id, channel_value_list[1])
                        THEN UnsentWritten(universe_id) ELSE unsent
           /\ ArtnetReply(op, r.status, receiver_dropped)
    /\ UNCHANGED <<value_vars, dimmed, service_vars, added, set_channel_log, arith_overflow, controllers, active_effects, next_inst,
                   superseded, stale_ticked, done_ticked, node_vars, array_vars>>

\* The GetChannel and GetChannels requests.
GetChannels(op, universe_id, channel_definitions, receiver_dropped) ==
    /\ artnet_alive
    /\ ArtnetReply(op, get_channels(universes, universe_id, channel_definitions),
                   receiver_dropped)
    /\ UNCHANGED <<later_vars, frame_vars, controllers, active_effects, next_inst, superseded,
                   stale_ticked, done_ticked, node_vars, array_vars>>

\* The universe has been sent fewer than MaxSends times.
SendsLeft(universe_id) ==
    universe_id \in DOMAIN universes =>
        universes[universe_id].packet_bytes[DMX_SEQ_OFFSET + 1] < MaxSends

Send(universe_id, receiver_dropped) ==
    /\ artnet_alive
    /\ \E socket_ok \in BOOLEAN, overflow_checks \in BOOLEAN :
        LET r == send(universes, universe_id, socket_ok, overflow_checks)
        IN  /\ universes' = r.universes
            /\ unsent' = IF r.status = "Ok" THEN UnsentReset(universe_id) ELSE unsent
            /\ ArtnetReply("Send", r.status, receiver_dropped)
    /\ UNCHANGED <<value_vars, dimmed, service_vars, added, set_channel_log, arith_overflow, controllers, active_effects, next_inst,
                   superseded, stale_ticked, done_ticked, node_vars, array_vars>>

\* The Set command served by handle_message.
SetChannelsCommand(parameters, receiver_dropped) ==
    /\ artnet_alive
    /\ universes' = set_channels_command(universes, parameters).universes
    /\ unsent' = IF universes' /= universes THEN UnsentWritten(parameters.universe_id)
                 ELSE unsent
    /\ ArtnetReply("Set", set_channels_command(universes, parameters).status,
                   receiver_dropped)
    /\ UNCHANGED <<value_vars, dimmed, service_vars, added, set_channel_log, arith_overflow, controllers,
                   active_effects, next_inst, superseded, stale_ticked, done_ticked,
                   node_vars, array_vars>>

\* ArtnetManager::handle_message serving a request for one of universe_ids:
\* an AddUniverse with one of definitions, a SetChannel(s) or GetChannel(s)
\* of channel_values, a RemoveUniverse or a Send (only while the universe
\* has sends left, if bounded_sends).
HandleMessage(universe_ids, definitions, channel_values, bounded_sends) ==
    \E universe_id \in universe_ids, receiver_dropped \in BOOLEAN :
        \/ \E definition \in definitions :
               AddUniverse(universe_id, definition, receiver_dropped)
        \/ RemoveUniverse(universe_id, receiver_dropped)
        \/ \E v \in channel_values :
               SetChannels("SetChannel", universe_id, <<v>>, receiver_dropped)
        \/ \E v \in channel_values, w \in channel_values :
               SetChannels("SetChannels", universe_id, <<v, w>>, receiver_dropped)
        \/ \E v \in channel_values :
               GetChannels("GetChannel", universe_id,
                           <<[channel |-> v.channel, channel_type |-> v.channel_type]>>,
                           receiver_dropped)
        \/ \E v \in channel_values, w \in channel_values :
               GetChannels("GetChannels", universe_id,
                           <<[channel |-> v.channel, channel_type |-> v.channel_type],
                             [channel |-> w.channel, channel_type |-> w.channel_type]>>,
                           receiver_dropped)
        \/ /\ bounded_sends => SendsLeft(universe_id)
           /\ Send(universe_id, receiver_dropped)

\* ArtnetManager::handle_message
ArtnetHandleMessage ==
    HandleMessage(UniverseIds, ManagerDefinitions, RequestValues, TRUE)

\* A call of start_effect; the effect started is numbered, and an effect it
\* displaces is recorded as superseded.
StartEffectFrom(ids, effects) ==
    /\ artnet_alive
    /\ next_inst <= MaxStarts
    /\ \E effect_id \in ids, effect \in effects :
        /\ active_effects' = start_effect(active_effects, effect_id,
                                          [inst |-> next_inst, effect |-> effect])
        /\ superseded' = superseded \cup
               (IF effect_id \in DOMAIN active_effects
                THEN {active_effects[effect_id].inst} ELSE {})
    /\ next_inst' = next_inst + 1
    /\ artnet_op' = [op |-> "StartEffect", status |-> "Ok"]
    /\ UNCHANGED <<later_vars, frame_vars, controllers, artnet_alive, stale_ticked, done_ticked,
                   node_vars, array_vars>>

StartEffect == StartEffectFrom(EffectIds, StartedEffects)

\* A call of stop_effect.
StopEffect ==
    /\ artnet_alive
    /\ \E effect_id \in EffectIds :
        /\ active_effects' = stop_effect(active_effects, effect_id)
        /\ superseded' = superseded \cup
               (IF effect_id \in DOMAIN active_effects
                THEN {active_effects[effect_id].inst} ELSE {})
    /\ artnet_op' = [op |-> "StopEffect", status |-> "Ok"]
    /\ UNCHANGED <<later_vars, frame_vars, controllers, artnet_alive, next_inst, stale_ticked,
                   done_ticked, node_vars, array_vars>>

\* What ArtnetManager::tick leaves behind, r being the outcome of its loop.
TickOutcome(r) ==
    /\ active_effects' = EffectsAfterTick(r)
    /\ universes' = r.universes
    /\ set_channel_log' = r.log
    /\ unsent' = UnsentTicked(universes, SubSeq(r.log, Len(set_channel_log) + 1, Len(r.log)))
    /\ arith_overflow' = r.overflow
    /\ artnet_alive' = (r.status /= "panic")
    /\ artnet_op' = [op |-> "Tick", status |-> r.status]
    /\ stale_ticked' =
           (stale_ticked \/ \E i \in DOMAIN r.ticked :
                                active_effects[r.ticked[i]].inst \in superseded)
    /\ done_ticked' =
           (done_ticked \/ \E i \in DOMAIN r.ticked :
                               IsDone(active_effects[r.ticked[i]].effect))

\* A call of ArtnetManager::tick; the effects are visited in any order.
Tick ==
    /\ artnet_alive
    /\ \E order \in Orders(DOMAIN active_effects) :
        TickOutcome(TickEffects(order, active_effects, universes, set_channel_log,
                                arith_overflow, <<>>))
    /\ UNCHANGED <<value_vars, dimmed, service_vars, added, controllers, next_inst, superseded, node_vars, array_vars>>

ArtnetNext == ArtnetHandleMessage

\* The manager serving the requests for the one universe u0 that carry one
\* channel.
FrameNext ==
    \E receiver_dropped \in BOOLEAN :
        \/ \E definition \in UniverseDefinitions :
               AddUniverse("u0", definition, receiver_dropped)
        \/ RemoveUniverse("u0", receiver_dropped)
        \/ \E v \in FrameValues : SetChannels("SetChannel", "u0", <<v>>, receiver_dropped)
        \/ \E v \in FrameValues :
               GetChannels("GetChannel", "u0",
                           <<[channel |-> v.channel, channel_type |-> v.channel_type]>>,
                           receiver_dropped)
        \/ /\ SendsLeft("u0")
           /\ Send("u0", receiver_dropped)

FrameSpec == ArtnetInit /\ [][FrameNext]_vars

\* The manager serving requests for u0, whatever the number of Send requests.
SendNext == HandleMessage({"u0"}, {TestUniverseDefinition}, RequestValues, FALSE)

SendSpec == ArtnetInit /\ [][SendNext]_vars

ArtnetSpec == ArtnetInit /\ [][ArtnetNext]_vars

\* The manager set up with the universe of the tests, as test_add_universe
\* leaves it.
WalkInit ==
    /\ LET r == add_universe(<<>>, {}, "u0", TestUniverseDefinition, TRUE)
       IN  /\ universes = r.universes
           /\ controllers = r.controllers
    /\ unsent = [id \in {"u0"} |-> JustSent]
    /\ added = [id \in {"u0"} |-> TestUniverseDefinition]
    /\ expanded = <<>>
    /\ dimmed = <<>>
    /\ NoService
    /\ set_channel_log = <<>>
    /\ arith_overflow = FALSE
    /\ active_effects = <<>>
    /\ artnet_alive = TRUE
    /\ artnet_op = NoOp
    /\ next_inst = 1
    /\ superseded = {}
    /\ stale_ticked = FALSE
    /\ done_ticked = FALSE
    /\ NoNodeDriven
    /\ arrays = <<>>
    /\ global_effects = {}
    /\ array_alive = TRUE
    /\ array_reply = <<>>
    /\ verified_lights = <<>>
    /\ values = <<>>
    /\ global_values = <<>>
    /\ array_request = <<>>
    /\ requests_left = 0

\* Ticks, and the SetChannel and Send requests for the universe.
WalkNext ==
    \/ Tick
    \/ \E v \in RequestValues, receiver_dropped \in BOOLEAN :
           SetChannels("SetChannel", "u0", <<v>>, receiver_dropped)
    \/ \E receiver_dropped \in BOOLEAN :
           /\ SendsLeft("u0")
           /\ Send("u0", receiver_dropped)

WalkSpec == WalkInit /\ [][WalkNext]_vars

\* The universe the Set command writes to.
CommandUniverseDefinition == [TestUniverseDefinition EXCEPT !.channels = CommandChannels]

\* The channel lists of the Set commands: the one of scenario S7, one of
\* another family, and one whose last channel ends past the universe.
CommandChannelLists ==
    {<<Rgb(0), Single(5)>>,
     <<TriWhite(1)>>,
     <<Single(0), Rgb(CommandChannels - 2)>>}

\* Their targets: the one of scenario S7, targets of one family, and one
\* that names a family twice.
CommandTargets ==
    {<<DimmerValue("Single", <<128>>), DimmerValue("Rgb", <<10, 20, 30>>)>>,
     <<DimmerValue("Single", <<U8_MODULUS - 1>>)>>,
     <<DimmerValue("TriWhite", <<1, 2, 3>>)>>,
     <<DimmerValue("Single", <<1>>), DimmerValue("Single", <<2>>)>>}

CommandParameters ==
    [universe_id : {"u0"}, channels : CommandChannelLists, target : CommandTargets,
     dimming_amount : {<<>>, <<DIMMING_AMOUNT_MAX \div 2>>}]

\* The universe added and removed, and Set commands for it.
CommandNext ==
    \/ \E receiver_dropped \in BOOLEAN :
           AddUniverse("u0", CommandUniverseDefinition, receiver_dropped)
    \/ \E receiver_dropped \in BOOLEAN : RemoveUniverse("u0", receiver_dropped)
    \/ \E parameters \in CommandParameters, receiver_dropped \in BOOLEAN :
           SetChannelsCommand(parameters, receiver_dropped)

CommandSpec == ArtnetInit /\ [][CommandNext]_vars

EffectsNext ==
    \/ StartEffect
    \/ StopEffect
    \/ Tick
    \/ AddUniverse("u0", TestUniverseDefinition, FALSE)
    \/ RemoveUniverse("u0", FALSE)

EffectsSpec == ArtnetInit /\ [][EffectsNext]_vars

\* The effects started on a frame that is written to: a Fade of channel 0 of
\* u0 to full, the same after a Delay, and after a Fade to another value.
FadeStarts ==
    LET fade(target) ==
            FadeEffectNode(<<[universe_id |-> "u0", channels |-> <<Single(0)>>]>>, FadeTicks,
                           [NoTarget EXCEPT !.single = <<target>>])
    IN  {fade(U8_MODULUS - 1),
         SequenceEffectNode(<<DelayEffectNode(1), fade(U8_MODULUS - 1)>>),
         SequenceEffectNode(<<fade(100), fade(U8_MODULUS - 1)>>)}

\* The value written to channel 0 by request.
StartWrites == {[channel |-> 0, channel_type |-> "Single", value |-> <<200>>]}

\* Effects started under one id and ticked on the universe u0, which is
\* written to by request between the starts and the ticks.
StartNext ==
    \/ StartEffectFrom({"a"}, FadeStarts)
    \/ Tick
    \/ AddUniverse("u0", TestUniverseDefinition, FALSE)
    \/ \E v \in StartWrites : SetChannels("SetChannel", "u0", <<v>>, FALSE)

StartSpec == ArtnetInit /\ [][StartNext]_vars

(***************************************************************************)
(* The Array manager and its AddArray and RemoveArray requests.            *)
(***************************************************************************)
ArrayIds == {"a1", "a2"}
GroupNames == {"all", "a"}

\* The entries the light groups of the arrays are made of.
LightEntries ==
    {ChannelEntry("Rgb", 0), ChannelEntry("Rgb", 1), ChannelEntry("Single", 1),
     UniverseEntry("u1"), GroupEntry("a"), GroupEntry("all")}

LightsLists == UNION {[1 .. n -> LightEntries] : n \in 0 .. MaxEntries}

DmxArray(lights, array_effects, presets) ==
    [universe_id |-> "u0", lights |-> lights, effects |-> array_effects,
     presets |-> presets]

\* Every array of at most the groups all and a, with on and off effects.
GeneratedArrays ==
    {DmxArray(lights, {"on", "off"}, <<>>) :
        lights \in UNION {[G -> LightsLists] : G \in SUBSET GroupNames}}

\* The arrays of the requests that follow one another: two valid ones (the
\* second has channel 3 in both universes, with different roles), one whose
\* group a is not covered by all, one cyclic, one that gives channel 1 two
\* roles, one without all, one without effects and one whose preset names an
\* effect nobody defines.
ArrayCatalogue ==
    {DmxArray([g \in {"all"} |-> <<ChannelEntry("Rgb", 0)>>], {"on", "off"}, <<>>),
     DmxArray([g \in {"all", "a"} |->
                  IF g = "all" THEN <<UniverseEntry("u1"), GroupEntry("a"),
                                      ChannelEntry("Rgb", 2)>>
                  ELSE <<ChannelEntry("Single", 3)>>],
              {"on"}, <<[on |-> <<>>, off |-> <<"on">>]>>),
     DmxArray([g \in {"all", "a"} |->
                  IF g = "all" THEN <<ChannelEntry("Rgb", 0)>>
                  ELSE <<ChannelEntry("Single", 3)>>], {"on", "off"}, <<>>),
     DmxArray([g \in {"all", "a"} |->
                  IF g = "all" THEN <<ChannelEntry("Rgb", 0)>>
                  ELSE <<GroupEntry("a")>>], {"on", "off"}, <<>>),
     DmxArray([g \in {"all"} |-> <<ChannelEntry("Rgb", 0), ChannelEntry("Rgb", 1)>>],
              {"on", "off"}, <<>>),
     DmxArray([g \in {"a"} |-> <<ChannelEntry("Rgb", 0)>>], {"on", "off"}, <<>>),
     DmxArray([g \in {"all"} |-> <<ChannelEntry("Rgb", 0)>>], {}, <<>>),
     DmxArray([g \in {"all"} |-> <<InvalidEntry>>], {"on"},
              <<[on |-> <<"blink">>, off |-> <<>>]>>)}

NoArray == DmxArray(<<>>, {}, <<>>)

AddArrayRequest(array_id, array, receiver_dropped) ==
    [type |-> "AddArray", array_id |-> array_id, array |-> array,
     receiver_dropped |-> receiver_dropped]

RemoveArrayRequest(array_id, receiver_dropped) ==
    [type |-> "RemoveArray", array_id |-> array_id, array |-> NoArray,
     receiver_dropped |-> receiver_dropped]

\* Either a request for any generated array is in flight and no other
\* follows, or none is and MaxRequests requests of the catalogue follow.
ArrayInit ==
    /\ ArrayManagerNew
    /\ \/ /\ \E array \in GeneratedArrays :
                array_request = <<AddArrayRequest("a1", array, FALSE)>>
          /\ requests_left = 0
       \/ /\ array_request = <<>>
          /\ requests_left = MaxRequests
    /\ universes = <<>>
    /\ set_channel_log = <<>>
    /\ arith_overflow = FALSE
    /\ ArtnetManagerNew
    /\ NoNodeDriven

\* The ingress sends a request and awaits the reply, or is aborted meanwhile.
SendArrayRequest ==
    /\ array_alive
    /\ array_request = <<>>
    /\ requests_left > 0
    /\ \E array_id \in ArrayIds, receiver_dropped \in BOOLEAN :
        \/ \E array \in ArrayCatalogue :
               array_request' = <<AddArrayRequest(array_id, array, receiver_dropped)>>
        \/ array_request' = <<RemoveArrayRequest(array_id, receiver_dropped)>>
    /\ requests_left' = requests_left - 1
    /\ UNCHANGED <<later_vars, arrays, global_effects, array_alive, array_reply, verified_lights,
                   frame_vars, node_vars, manager_vars>>

\* The largest stack any expansion of verify_array_lights reaches.
DeepestExpansion(array) ==
    LET lists == {<<GroupEntry("all")>>} \cup {array.lights[g] : g \in DOMAIN array.lights}
        depths == {static_get_array_light_channels(array, l).deepest : l \in lists}
    IN  CHOOSE d \in depths : \A e \in depths : e <= d

\* What handle_message does after the request was served: the result is sent
\* to the requester, and unwrap() panics when the receiver was dropped.
ArrayReply(result, deepest) ==
    /\ array_reply' = <<[request |-> array_request[1], result |-> result,
                         deepest |-> deepest]>>
    /\ array_alive' = ~array_request[1].receiver_dropped
    /\ array_request' = <<>>

\* The AddArray arm of handle_message.
AddArray ==
    /\ array_alive
    /\ array_request /= <<>>
    /\ array_request[1].type = "AddArray"
    /\ LET array == array_request[1].array
       IN  /\ \E verified \in verify_array(global_effects, array) :
                /\ arrays' = add_array(arrays, array_request[1].array_id, array, verified)
                /\ ArrayReply(verified, DeepestExpansion(array))
           /\ verified_lights' =
                  IF verify_array_effects(global_effects, array) /= "Ok" THEN <<>>
                  ELSE <<static_get_array_light_channels(array, <<GroupEntry("all")>>)>>
    /\ UNCHANGED <<later_vars, global_effects, requests_left, frame_vars, node_vars, manager_vars>>

\* The RemoveArray arm of handle_message.
RemoveArray ==
    /\ array_alive
    /\ array_request /= <<>>
    /\ array_request[1].type = "RemoveArray"
    /\ arrays' = remove_array(arrays, array_request[1].array_id)
    /\ ArrayReply("Ok", 0)
    /\ UNCHANGED <<later_vars, global_effects, requests_left, verified_lights, frame_vars, node_vars,
                   manager_vars>>

\* ArrayManager::handle_message
ArrayHandleMessage == AddArray \/ RemoveArray

ArrayNext == SendArrayRequest \/ ArrayHandleMessage

ArraySpec == ArrayInit /\ [][ArrayNext]_vars

(***************************************************************************)
(* The Array manager's effects: the global effects are added and removed,  *)
(* and the definition of an array's effect for a usage is looked up.       *)
(***************************************************************************)
EffectUsages == {"On", "Off", "Dim"}
LookupEffectIds == {"on", "blink"}

\* Arrays that define some of the effects themselves, whose On effect is
\* called on or blink, without a preset or with one preset that may name
\* its own On and Dim effects.
LookupArrays ==
    {[universe_id |-> "u0", lights |-> [g \in {"all"} |-> <<ChannelEntry("Rgb", 0)>>],
      effects |-> array_effects, presets |-> presets,
      on |-> on, off |-> "off", dim |-> "dim"] :
        array_effects \in SUBSET LookupEffectIds, on \in LookupEffectIds,
        presets \in {<<>>} \cup
            {<<[on |-> preset_on, off |-> <<>>, dim |-> preset_dim]>> :
                preset_on \in {<<>>, <<"on">>, <<"blink">>},
                preset_dim \in {<<>>, <<"blink">>}}}

\* The manager holding one array, a1.
LookupInit ==
    /\ \E array \in LookupArrays : arrays = [a \in {"a1"} |-> array]
    /\ global_effects = {}
    /\ array_alive = TRUE
    /\ array_reply = <<>>
    /\ verified_lights = <<>>
    /\ values = <<>>
    /\ global_values = <<>>
    /\ NoCalls
    /\ array_request = <<>>
    /\ requests_left = 0
    /\ universes = <<>>
    /\ set_channel_log = <<>>
    /\ arith_overflow = FALSE
    /\ ArtnetManagerNew
    /\ NoNodeDriven

\* The AddEffect arm of handle_message.
AddEffect ==
    /\ array_alive
    /\ \E effect_id \in LookupEffectIds :
        global_effects' = add_effect(global_effects, effect_id)
    /\ array_reply' = <<>>
    /\ UNCHANGED <<later_vars, arrays, array_alive, array_request, requests_left,
                   verified_lights, frame_vars, node_vars, manager_vars>>

\* The RemoveEffect arm of handle_message.
RemoveEffect ==
    /\ array_alive
    /\ \E effect_id \in LookupEffectIds :
        global_effects' = remove_effect(global_effects, effect_id)
    /\ array_reply' = <<>>
    /\ UNCHANGED <<later_vars, arrays, array_alive, array_request, requests_left,
                   verified_lights, frame_vars, node_vars, manager_vars>>

\* A call of get_usage_effect_definition, as the GetEffectRuntime arm of
\* handle_message makes it through get_usage_effect_runtime.
GetUsageEffectDefinition ==
    /\ array_alive
    /\ \E usage \in EffectUsages, array_id \in ArrayIds, preset_number \in {<<>>, <<0>>, <<1>>} :
        array_reply' =
            <<[usage |-> usage, array_id |-> array_id, preset_number |-> preset_number,
               result |-> get_usage_effect_definition(arrays, global_effects, usage,
                                                      array_id, preset_number)]>>
    /\ UNCHANGED <<later_vars, arrays, global_effects, array_alive, array_request,
                   requests_left, verified_lights, frame_vars, node_vars, manager_vars>>

LookupNext == AddEffect \/ RemoveEffect \/ GetUsageEffectDefinition

LookupSpec == LookupInit /\ [][LookupNext]_vars

(***************************************************************************)
(* The Array manager's values: the global table, the arrays' tables and    *)
(* the expansion of a text against them.                                   *)
(***************************************************************************)
ValueChars == {Backquote, "=", "n"}
ValueNames == {<<"n">>}
ValueTexts == {<<>>, <<"x">>}

\* The symbol tables sent: any binding of the names.
SymbolTables == UNION {[N -> ValueTexts] : N \in SUBSET ValueNames}

\* The texts expanded.
UnexpandedValues == UNION {[1..n -> ValueChars] : n \in 0..MaxValueLen}

\* The array the values belong to.
ValuesArray == DmxArray([g \in {"all"} |-> <<ChannelEntry("Rgb", 0)>>], {"on", "off"}, <<>>)

\* The manager with the array a1 added, or with no array.
ValuesInit ==
    /\ arrays \in {<<>>, [a \in {"a1"} |-> ValuesArray]}
    /\ global_effects = {}
    /\ array_alive = TRUE
    /\ array_reply = <<>>
    /\ verified_lights = <<>>
    /\ values = <<>>
    /\ global_values = <<>>
    /\ NoCalls
    /\ array_request = <<>>
    /\ requests_left = 0
    /\ universes = <<>>
    /\ set_channel_log = <<>>
    /\ arith_overflow = FALSE
    /\ ArtnetManagerNew
    /\ NoNodeDriven

\* The AddGlobalValue arm of handle_message.
AddGlobalValue ==
    /\ array_alive
    /\ \E value_name \in ValueNames, value \in ValueTexts :
        global_values' = set_global_value(global_values, value_name, value)
    /\ expanded' = <<>>
    /\ UNCHANGED <<dimmed, service_vars, added, unsent, values, array_vars, frame_vars, node_vars, manager_vars>>

\* The RemoveGlobalValue arm of handle_message.
RemoveGlobalValue ==
    /\ array_alive
    /\ \E value_name \in ValueNames :
        global_values' = remove_global_value(global_values, value_name)
    /\ expanded' = <<>>
    /\ UNCHANGED <<dimmed, service_vars, added, unsent, values, array_vars, frame_vars, node_vars, manager_vars>>

\* The InitializeArrayValues arm of handle_message, for a symbol table of
\* the given set.
InitializeArrayValuesFrom(tables) ==
    /\ array_alive
    /\ \E array_id \in ArrayIds, symbol_table \in tables :
        \E names \in Orders(DOMAIN symbol_table) :
            values' = initialize_array_values(values, array_id, symbol_table, names)
    /\ expanded' = <<>>
    /\ UNCHANGED <<dimmed, service_vars, added, unsent, global_values, array_vars, frame_vars, node_vars, manager_vars>>

InitializeArrayValues == InitializeArrayValuesFrom(SymbolTables)

\* A call of expand_values for the array a1, once after the requests served.
ExpandValues ==
    /\ array_alive
    /\ expanded = <<>>
    /\ \E unexpanded_value \in UnexpandedValues :
        expanded' = <<[array_id |-> "a1", unexpanded_value |-> unexpanded_value,
                       result |-> expand_values(arrays, values, global_values, "a1",
                                                unexpanded_value)]>>
    /\ UNCHANGED <<dimmed, service_vars, added, unsent, values, global_values, array_vars, frame_vars, node_vars,
                   manager_vars>>

ValuesNext == AddGlobalValue \/ RemoveGlobalValue \/ InitializeArrayValues \/ ExpandValues

ValuesSpec == ValuesInit /\ [][ValuesNext]_vars

\* The symbol tables of the commands: any binding of two names.
CommandTables ==
    UNION {[N -> {<<>>, <<"x">>, <<"n">>}] : N \in SUBSET {<<"n">>, <<"m">>}}

\* The values of the commands sent to a manager that holds the array a1.
TablesNext == InitializeArrayValuesFrom(CommandTables)

TablesSpec == ValuesInit /\ [][TablesNext]_vars

(***************************************************************************)
(* The MQTT ingress and egress (mqtt_subscriber.rs, mqtt_publisher.rs): a  *)
(* broker message is handled to its end before the next one is taken; each *)
(* request to a manager is sent with a oneshot reply channel, and the      *)
(* handler waits for the reply before it goes on.  A topic is the sequence *)
(* of its parts; a payload is empty, or bytes that parse as no type, or    *)
(* the JSON of a value of one type.                                        *)
(***************************************************************************)
EmptyPayload == [type |-> "empty", value |-> <<>>]
InvalidPayload == [type |-> "invalid", value |-> <<>>]
Json(type, value) == [type |-> type, value |-> <<value>>]

\* serde_json::from_slice::<T>
ParsesAs(payload, type) == payload.type = type

Request(to, type, id, argument) ==
    [to |-> to, type |-> type, id |-> id, argument |-> argument]

\* What a handler does next: it sends a request and awaits its reply, or it
\* returns.
Await(request) == [kind |-> "send", result |-> "", request |-> <<request>>]
Finish(result) == [kind |-> "return", result |-> result, request |-> <<>>]

\* MqttSubscriber::handle_universe_message, to its first await or its return.
handle_universe_message(universe_id, payload) ==
    IF payload.type = "empty"
    THEN Await(Request("artnet", "RemoveUniverse", universe_id, <<>>))
    ELSE IF ParsesAs(payload, "UniverseDefinition")
    THEN Await(Request("artnet", "AddUniverse", universe_id, payload.value[1]))
    ELSE Finish("JsonParseError")

\* MqttSubscriber::handle_array_message
handle_array_message(array_id, payload) ==
    IF payload.type = "empty"
    THEN Await(Request("array", "RemoveArray", array_id, <<>>))
    ELSE IF ParsesAs(payload, "DmxArray")
    THEN Await(Request("array", "AddArray", array_id, payload.value[1]))
    ELSE Finish("JsonParseError")

\* MqttSubscriber::handle_value_message
handle_value_message(value_name, payload) ==
    IF payload.type = "empty"
    THEN Await(Request("array", "RemoveGlobalValue", value_name, <<>>))
    ELSE IF ParsesAs(payload, "ValueDefinition")
    THEN Await(Request("array", "AddGlobalValue", value_name, payload.value[1]))
    ELSE Finish("JsonParseError")

\* MqttSubscriber::handle_effect_message
handle_effect_message(effect_id, payload) ==
    IF payload.type = "empty"
    THEN Await(Request("array", "RemoveEffect", effect_id, <<>>))
    ELSE IF ParsesAs(payload, "EffectNodeDefinition")
    THEN Await(Request("array", "AddEffect", effect_id, payload.value[1]))
    ELSE Finish("JsonParseError")

\* The GetEffectRuntime request of an On, Off or Dim command.
GetEffectRuntimeRequest(command, command_parameters) ==
    Request("array", "GetEffectRuntime", command_parameters.array_id,
            [usage |-> command, effect_id |-> command_parameters.effect_id,
             dimming_amount |->
                 IF command_parameters.dimming_amount = <<>> THEN DIMMING_AMOUNT_MAX
                 ELSE command_parameters.dimming_amount[1]])

\* A request of the command that asks for the effect before the values.
ValuesAfterEffect(command, command_parameters) ==
    Await(GetEffectRuntimeRequest(command, command_parameters))

\* The first request of an On, Off or Dim command: the values, if the
\* command has some, and else the effect.
OnOffFirstRequest(command, command_parameters) ==
    IF command_parameters.values /= <<>>
    THEN Await(Request("array", "InitializeArrayValues", command_parameters.array_id,
                       command_parameters.values[1]))
    ELSE Await(GetEffectRuntimeRequest(command, command_parameters))

\* MqttSubscriber::handle_command_message, to its first await or its return.
handle_command_message(command, payload) ==
    IF command \in {"On", "Off", "Dim"}
    THEN IF ~ParsesAs(payload, "OnOffCommandParameters") THEN Finish("JsonParseError")
         ELSE OnOffFirstRequest(command, payload.value[1])
    ELSE IF command = "Stop"
    THEN IF ~ParsesAs(payload, "StopCommandParameters") THEN Finish("JsonParseError")
         ELSE Await(Request("artnet", "StopEffect", payload.value[1].array_id, <<>>))
    ELSE IF command = "Set"
    THEN IF ~ParsesAs(payload, "SetChannelsParameters") THEN Finish("JsonParseError")
         ELSE Await(Request("artnet", "SetChannels", payload.value[1].universe_id,
                            payload.value[1]))
    ELSE Finish("InvalidCommand")

\* The subtopics handle_message returns Ok for without doing anything.
IgnoredSubtopics == {"Error", "LastError", "Active"}

\* The same with the subtopic of the version the service publishes.
IgnoredWithVersion == IgnoredSubtopics \cup {"Version"}

\* MqttSubscriber::handle_message, to its first await or its return; ignored
\* are the subtopics it does nothing for.
HandleMessageIgnoring(ignored, topic, payload) ==
    IF Len(topic) < 2 THEN Finish("MissingSubtopic")
    ELSE IF topic[2] = "Universe"
    THEN IF Len(topic) /= 3 THEN Finish("MissingUniverseId")
         ELSE handle_universe_message(topic[3], payload)
    ELSE IF topic[2] = "Array"
    THEN IF Len(topic) /= 3 THEN Finish("MissingArrayId")
         ELSE handle_array_message(topic[3], payload)
    ELSE IF topic[2] = "Command"
    THEN IF Len(topic) /= 3 THEN Finish("MissingCommand")
         ELSE handle_command_message(topic[3], payload)
    ELSE IF topic[2] = "Value"
    THEN IF Len(topic) /= 3 THEN Finish("MissingCommand")
         ELSE handle_value_message(topic[3], payload)
    ELSE IF topic[2] = "Effect"
    THEN IF Len(topic) /= 3 THEN Finish("MissingCommand")
         ELSE handle_effect_message(topic[3], payload)
    ELSE IF topic[2] \in ignored THEN Finish("Ok")
    ELSE Finish("InvalidSubtopic")

HandleMessageStart(topic, payload) == HandleMessageIgnoring(IgnoredSubtopics, topic, payload)

\* handle_message from the reply of the request it awaited (stage is the
\* type of that request) to its next await or its return.
HandleMessageResume(message, stage, reply) ==
    IF stage = "InitializeArrayValues"
    THEN Await(GetEffectRuntimeRequest(message.topic[3], message.payload.value[1]))
    ELSE IF stage = "GetEffectRuntime"
    THEN IF reply.status /= "Ok" THEN Finish(reply.status)
         ELSE Await(Request("artnet", "StartEffect", message.payload.value[1].array_id,
                            reply.node[1]))
    ELSE IF reply.status /= "Ok" THEN Finish(reply.status)
    ELSE Finish("Ok")

\* The array of the commands: it has an off effect of its own, and no on
\* and no dim effect.
IngressArray ==
    [universe_id |-> "u0", lights |-> [g \in {"all"} |-> <<ChannelEntry("Rgb", 0)>>],
     effects |-> {"off"}, presets |-> <<>>, on |-> "on", off |-> "off", dim |-> "dim"]

\* The symbol tables of the commands: a number of ticks, and a text that
\* is no number.
IngressTables ==
    {[n \in {UsageTicksName("On")} |-> <<"3">>], [n \in {UsageTicksName("On")} |-> <<"x">>]}

\* The parameters of the On, Off and Dim commands.
IngressCommandParameters ==
    [array_id : {"a1"}, values : {<<>>} \cup {<<t>> : t \in IngressTables},
     dimming_amount : {<<>>, <<DIMMING_AMOUNT_MAX \div 2>>}, effect_id : {<<>>}]
    \cup {[array_id |-> "a2", values |-> <<>>, dimming_amount |-> <<>>, effect_id |-> <<>>]}

Message(topic, payload) == [topic |-> topic, payload |-> payload]

\* The messages the broker delivers to the subscription DMX/#, the ones the
\* service publishes itself among them: those with no payload or a payload
\* that parses as nothing, and then those with the JSON of each type.
BrokerMessages ==
    <<{Message(topic, EmptyPayload) :
          topic \in {<<"DMX">>, <<"DMX", "Universe">>, <<"DMX", "Array">>,
                     <<"DMX", "Command">>, <<"DMX", "Value">>, <<"DMX", "Effect">>,
                     <<"DMX", "Other">>, <<"DMX", "Command", "Blink">>}}
      \cup {Message(<<"DMX", subtopic>>, InvalidPayload) : subtopic \in IgnoredWithVersion}
      \cup {Message(topic, payload) :
              topic \in {<<"DMX", "Universe", "u0">>, <<"DMX", "Array", "a1">>,
                         <<"DMX", "Value", UsageTicksName("On")>>,
                         <<"DMX", "Effect", "on">>},
              payload \in {EmptyPayload, InvalidPayload}}
      \cup {Message(<<"DMX", "Command", command>>, InvalidPayload) :
              command \in {"On", "Stop", "Set"}}
      \cup {Message(<<"DMX", "Array", "a2">>, EmptyPayload)},
      {Message(<<"DMX", "Universe", "u0">>, Json("UniverseDefinition", definition)) :
          definition \in {TestUniverseDefinition,
                          [TestUniverseDefinition EXCEPT !.universe = 16]}},
      {Message(<<"DMX", "Array", "a1">>, Json("DmxArray", array)) :
          array \in {IngressArray, [IngressArray EXCEPT !.effects = {}]}}
      \cup {Message(<<"DMX", "Array", "a2">>, Json("DmxArray", IngressArray))},
      {Message(<<"DMX", "Value", UsageTicksName("On")>>, Json("ValueDefinition", text)) :
          text \in {<<"2">>, <<"y">>}},
      {Message(<<"DMX", "Effect", "on">>,
               Json("EffectNodeDefinition", DelayDefinition(Number(1))))},
      {Message(<<"DMX", "Command", command>>, Json("OnOffCommandParameters", p)) :
          command \in {"On", "Off", "Dim"}, p \in IngressCommandParameters},
      {Message(<<"DMX", "Command", "Stop">>,
               Json("StopCommandParameters", [array_id |-> "a1"]))},
      {Message(<<"DMX", "Command", "Set">>,
               Json("SetChannelsParameters",
                    [universe_id |-> "u0", channels |-> <<Single(0)>>,
                     target |-> <<DimmerValue("Single", <<128>>)>>,
                     dimming_amount |-> <<>>]))}>>

\* The service started, the Array manager holding the array a1, and
\* MaxMessages broker messages to come.
IngressInit ==
    /\ arrays = [a \in {"a1"} |-> IngressArray]
    /\ global_effects = {}
    /\ array_alive = TRUE
    /\ array_reply = <<>>
    /\ verified_lights = <<>>
    /\ values = <<>>
    /\ global_values = <<>>
    /\ expanded = <<>>
    /\ dimmed = <<>>
    /\ added = <<>>
    /\ unsent = <<>>
    /\ subscriber = IdleSubscriber
    /\ manager_request = <<>>
    /\ manager_reply = <<>>
    /\ publisher_queue = <<>>
    /\ published = <<>>
    /\ messages_left = MaxMessages
    /\ run_loop = AtSelect
    /\ cancelled = FALSE
    /\ request_queue = <<>>
    /\ publisher = AtRecv
    /\ array_request = <<>>
    /\ requests_left = 0
    /\ universes = <<>>
    /\ set_channel_log = <<>>
    /\ arith_overflow = FALSE
    /\ ArtnetManagerNew
    /\ NoNodeDriven

\* The handler of message goes on with step: it sends the request and
\* awaits, or it returns, and run hands an Error event to the publisher when
\* it returned an error.
Advance(message, step, sent, replies) ==
    IF step.kind = "send"
    THEN /\ subscriber' = [message |-> <<message>>, stage |-> step.request[1].type,
                           result |-> "", sent |-> Append(sent, step.request[1].type),
                           replies |-> replies]
         /\ manager_request' = step.request
         /\ UNCHANGED publisher_queue
    ELSE /\ subscriber' = [message |-> <<message>>, stage |-> "", result |-> step.result,
                           sent |-> sent, replies |-> replies]
         /\ manager_request' = <<>>
         /\ publisher_queue' = IF step.result = "Ok" THEN publisher_queue
                               ELSE Append(publisher_queue, step.result)

\* The poll arm of run: a broker message arrives and handle_message runs to
\* its first await or to its return.
Receive ==
    /\ subscriber.stage = ""
    /\ subscriber.result /= "panic"
    /\ messages_left > 0
    /\ Len(publisher_queue) < QUEUE_DEPTH
    /\ messages_left' = messages_left - 1
    /\ \E i \in DOMAIN BrokerMessages : \E message \in BrokerMessages[i] :
           Advance(message, HandleMessageStart(message.topic, message.payload), <<>>, <<>>)
    /\ UNCHANGED <<manager_reply, published, request_queue, publisher, run_loop, cancelled, value_vars, dimmed, added,
                   unsent, array_vars, frame_vars, node_vars, manager_vars>>

\* The reply awaited arrives and handle_message goes on.
Resume ==
    /\ subscriber.stage /= ""
    /\ manager_reply /= <<>>
    /\ manager_reply' = <<>>
    /\ Advance(subscriber.message[1],
               HandleMessageResume(subscriber.message[1], subscriber.stage, manager_reply[1]),
               subscriber.sent, Append(subscriber.replies, manager_reply[1].status))
    /\ UNCHANGED <<published, request_queue, publisher, messages_left, run_loop, cancelled, value_vars, dimmed, added,
                   unsent, array_vars, frame_vars, node_vars, manager_vars>>

\* The manager the handler awaits has panicked and dropped the reply
\* channel: rx.await.unwrap() panics in the subscriber.
ReplyDropped ==
    /\ subscriber.stage /= ""
    /\ manager_request = <<>>
    /\ manager_reply = <<>>
    /\ subscriber' = [subscriber EXCEPT !.stage = "", !.result = "panic"]
    /\ UNCHANGED <<manager_request, manager_reply, publisher_queue, published, request_queue, publisher, messages_left,
                   run_loop, cancelled, value_vars, dimmed, added, unsent, array_vars,
                   frame_vars, node_vars, manager_vars>>

Reply(status, runtime_node) == [status |-> status, node |-> runtime_node]

\* The request in flight is taken by its manager, which sends the reply.
Served(reply) ==
    /\ manager_request' = <<>>
    /\ manager_reply' = <<reply>>
    /\ UNCHANGED <<subscriber, publisher_queue, published, request_queue, publisher, messages_left, run_loop, cancelled>>

\* The Array manager after AddArray: it sends the reply, or it has
\* panicked and the reply channel is dropped.
ArrayServed(status) ==
    /\ array_alive' = (status /= "panic")
    /\ manager_request' = <<>>
    /\ manager_reply' = IF status = "panic" THEN <<>> ELSE <<Reply(status, <<>>)>>
    /\ UNCHANGED <<subscriber, publisher_queue, published, request_queue, publisher, messages_left, run_loop, cancelled>>

\* ArrayManager::handle_message serving the request of the subscriber.
IngressArrayHandleMessage ==
    /\ array_alive
    /\ manager_request /= <<>>
    /\ manager_request[1].to = "array"
    /\ LET request == manager_request[1]
       IN  \/ /\ request.type = "AddArray"
              /\ \E verified \in verify_array(global_effects, request.argument) :
                     /\ arrays' = add_array(arrays, request.id, request.argument, verified)
                     /\ ArrayServed(verified)
              /\ UNCHANGED <<global_effects, value_vars>>
           \/ /\ request.type = "RemoveArray"
              /\ arrays' = remove_array(arrays, request.id)
              /\ Served(Reply("Ok", <<>>))
              /\ UNCHANGED <<global_effects, value_vars, array_alive>>
           \/ /\ request.type = "AddGlobalValue"
              /\ global_values' = set_global_value(global_values, request.id, request.argument)
              /\ Served(Reply("Ok", <<>>))
              /\ UNCHANGED <<arrays, global_effects, values, expanded, array_alive>>
           \/ /\ request.type = "RemoveGlobalValue"
              /\ global_values' = remove_global_value(global_values, request.id)
              /\ Served(Reply("Ok", <<>>))
              /\ UNCHANGED <<arrays, global_effects, values, expanded, array_alive>>
           \/ /\ request.type = "AddEffect"
              /\ global_effects' = add_effect(global_effects, request.id)
              /\ Served(Reply("Ok", <<>>))
              /\ UNCHANGED <<arrays, value_vars, array_alive>>
           \/ /\ request.type = "RemoveEffect"
              /\ global_effects' = remove_effect(global_effects, request.id)
              /\ Served(Reply("Ok", <<>>))
              /\ UNCHANGED <<arrays, value_vars, array_alive>>
           \/ /\ request.type = "InitializeArrayValues"
              /\ \E names \in Orders(DOMAIN request.argument) :
                     values' = initialize_array_values(values, request.id, request.argument,
                                                       names)
              /\ Served(Reply("Ok", <<>>))
              /\ UNCHANGED <<arrays, global_effects, global_values, expanded, array_alive>>
           \/ /\ request.type = "GetEffectRuntime"
              /\ \E r \in get_usage_effect_runtime(arrays, global_effects, values,
                                                   global_values, request.argument.usage,
                                                   request.id, request.argument.effect_id,
                                                   request.argument.dimming_amount) :
                     Served(r)
              /\ UNCHANGED <<arrays, global_effects, value_vars, array_alive>>
    /\ UNCHANGED <<array_request, requests_left, array_reply, verified_lights,
                   dimmed, added, unsent, frame_vars, node_vars, manager_vars>>

\* The Art-Net manager after a request: it sends the reply, or it has
\* panicked and the reply channel is dropped.
ArtnetServed(status) ==
    /\ artnet_alive' = (status /= "panic")
    /\ manager_request' = <<>>
    /\ manager_reply' = IF status = "panic" THEN <<>> ELSE <<Reply(status, <<>>)>>
    /\ UNCHANGED <<subscriber, publisher_queue, published, request_queue, publisher, messages_left, run_loop, cancelled>>

\* ArtnetManager::handle_message serving the request of the subscriber.
IngressArtnetHandleMessage ==
    /\ artnet_alive
    /\ manager_request /= <<>>
    /\ manager_request[1].to = "artnet"
    /\ LET request == manager_request[1]
       IN  \/ /\ request.type = "AddUniverse"
              /\ \E socket_ok \in BOOLEAN :
                     LET r == add_universe(universes, controllers, request.id,
                                           request.argument, socket_ok)
                     IN  /\ universes' = r.universes
                         /\ controllers' = r.controllers
                         /\ ArtnetServed(r.status)
              /\ UNCHANGED <<active_effects, next_inst, superseded>>
           \/ /\ request.type = "RemoveUniverse"
              /\ LET r == remove_universe(universes, controllers, request.id)
                 IN  /\ universes' = r.universes
                     /\ controllers' = r.controllers
                     /\ ArtnetServed(r.status)
              /\ UNCHANGED <<active_effects, next_inst, superseded>>
           \/ /\ request.type = "StartEffect"
              /\ active_effects' = start_effect(active_effects, request.id,
                                                [inst |-> next_inst,
                                                 effect |-> request.argument])
              /\ superseded' = superseded \cup
                     (IF request.id \in DOMAIN active_effects
                      THEN {active_effects[request.id].inst} ELSE {})
              /\ next_inst' = next_inst + 1
              /\ ArtnetServed("Ok")
              /\ UNCHANGED <<universes, controllers>>
           \/ /\ request.type = "StopEffect"
              /\ active_effects' = stop_effect(active_effects, request.id)
              /\ superseded' = superseded \cup
                     (IF request.id \in DOMAIN active_effects
                      THEN {active_effects[request.id].inst} ELSE {})
              /\ ArtnetServed("Ok")
              /\ UNCHANGED <<universes, controllers, next_inst>>
           \/ /\ request.type = "SetChannels"
              /\ LET r == set_channels_command(universes, request.argument)
                 IN  /\ universes' = r.universes
                     /\ ArtnetServed(r.status)
              /\ UNCHANGED <<controllers, active_effects, next_inst, superseded>>
    /\ UNCHANGED <<artnet_op, stale_ticked, done_ticked, set_channel_log, arith_overflow,
                   value_vars, dimmed, added, unsent, array_vars, node_vars>>

\* One turn of the loop of mqtt_publisher::session: an Error event is taken
\* and published, retained on DMX/LastError and then not retained on
\* DMX/Error.
PublishError ==
    /\ publisher_queue /= <<>>
    /\ published' = published \o
           <<[topic |-> <<"DMX", "LastError">>, retain |-> TRUE,
              message |-> Head(publisher_queue)],
             [topic |-> <<"DMX", "Error">>, retain |-> FALSE,
              message |-> Head(publisher_queue)]>>
    /\ publisher_queue' = Tail(publisher_queue)
    /\ UNCHANGED <<subscriber, manager_request, manager_reply, messages_left, run_loop,
                   request_queue, publisher,
                   cancelled, value_vars, dimmed, added, unsent, array_vars, frame_vars,
                   node_vars, manager_vars>>

IngressNext ==
    \/ Receive
    \/ Resume
    \/ ReplyDropped
    \/ IngressArrayHandleMessage
    \/ IngressArtnetHandleMessage
    \/ PublishError

IngressSpec == IngressInit /\ [][IngressNext]_vars

(***************************************************************************)
(* The loop of ArtnetManager::run with its tick timer: a select over the   *)
(* cancellation token, the request queue and the timer, whose arms run to  *)
(* their end before the loop selects again.  The tick (manager.rs) has no  *)
(* await; it is taken here effect by effect, while requests are sent to    *)
(* the queue and the token is cancelled by the other tasks at any moment.  *)
(***************************************************************************)
\* The requests the other tasks send to the Art-Net manager.
RunRequests ==
    <<Request("artnet", "AddUniverse", "u0", TestUniverseDefinition),
      Request("artnet", "RemoveUniverse", "u0", <<>>),
      Request("artnet", "StartEffect", "a", DelayEffectNode(1)),
      Request("artnet", "StartEffect", "b",
              FadeEffectNode(<<[universe_id |-> "u0", channels |-> <<Single(0)>>]>>,
                             FadeTicks, [NoTarget EXCEPT !.single = <<U8_MODULUS - 1>>])),
      Request("artnet", "StopEffect", "a", <<>>),
      Request("artnet", "SetChannels", "u0",
              [universe_id |-> "u0", channels |-> <<Single(0)>>,
               target |-> <<DimmerValue("Single", <<128>>)>>, dimming_amount |-> <<>>])>>

\* A new manager whose loop is at its select, the queue empty, and
\* MaxMessages requests to come.
RunInit ==
    /\ universes = <<>>
    /\ set_channel_log = <<>>
    /\ arith_overflow = FALSE
    /\ ArtnetManagerNew
    /\ NoNodeDriven
    /\ arrays = <<>>
    /\ global_effects = {}
    /\ array_alive = TRUE
    /\ array_reply = <<>>
    /\ verified_lights = <<>>
    /\ array_request = <<>>
    /\ requests_left = 0
    /\ expanded = <<>>
    /\ dimmed = <<>>
    /\ added = <<>>
    /\ unsent = <<>>
    /\ values = <<>>
    /\ global_values = <<>>
    /\ subscriber = IdleSubscriber
    /\ manager_request = <<>>
    /\ manager_reply = <<>>
    /\ publisher_queue = <<>>
    /\ published = <<>>
    /\ messages_left = MaxMessages
    /\ run_loop = AtSelect
    /\ cancelled = FALSE
    /\ request_queue = <<>>
    /\ publisher = AtRecv

\* What the steps of the loop leave alone.
RunUnchanged ==
    UNCHANGED <<subscriber, publisher_queue, published, request_queue, publisher, value_vars, dimmed, added, unsent,
                array_vars, node_vars, artnet_op, stale_ticked, done_ticked,
                set_channel_log, arith_overflow>>

\* Another task sends a request: it waits in the queue of the manager.
RunSend ==
    /\ messages_left > 0
    /\ Len(manager_request) < QUEUE_DEPTH
    /\ messages_left' = messages_left - 1
    /\ \E i \in DOMAIN RunRequests : manager_request' = Append(manager_request, RunRequests[i])
    /\ UNCHANGED <<manager_reply, run_loop, cancelled, universes, controllers, active_effects,
                   artnet_alive, next_inst, superseded>>
    /\ RunUnchanged

\* The service cancels the token.
RunCancel ==
    /\ ~cancelled
    /\ cancelled' = TRUE
    /\ UNCHANGED <<manager_request, manager_reply, messages_left, run_loop, universes,
                   controllers, active_effects, artnet_alive, next_inst, superseded>>
    /\ RunUnchanged

\* The loop handles requests at any point of a tick.
AtAnyPoint(loop) == loop.pc /= "stopped"

\* The loop is at its select, the one await of run.
AtAwait(loop) == loop.pc = "select"

\* The cancellation arm of the select.
RunCancelled ==
    /\ AtAwait(run_loop)
    /\ cancelled
    /\ run_loop' = [run_loop EXCEPT !.pc = "stopped"]
    /\ UNCHANGED <<manager_request, manager_reply, messages_left, cancelled, universes,
                   controllers, active_effects, artnet_alive, next_inst, superseded>>
    /\ RunUnchanged

\* The request arm of the select: the first request of the queue is handled
\* and its reply sent.
RunHandleMessage ==
    /\ AtAwait(run_loop)
    /\ artnet_alive
    /\ manager_request /= <<>>
    /\ manager_request' = Tail(manager_request)
    /\ LET request == manager_request[1]
           served(status) ==
               /\ artnet_alive' = (status /= "panic")
               /\ manager_reply' = <<Reply(status, <<>>)>>
               /\ run_loop' = IF status = "panic" THEN [run_loop EXCEPT !.pc = "stopped"]
                               ELSE run_loop
       IN  \/ /\ request.type = "AddUniverse"
              /\ \E socket_ok \in BOOLEAN :
                     LET r == add_universe(universes, controllers, request.id,
                                           request.argument, socket_ok)
                     IN  /\ universes' = r.universes
                         /\ controllers' = r.controllers
                         /\ served(r.status)
              /\ UNCHANGED <<active_effects, next_inst, superseded>>
           \/ /\ request.type = "RemoveUniverse"
              /\ LET r == remove_universe(universes, controllers, request.id)
                 IN  /\ universes' = r.universes
                     /\ controllers' = r.controllers
                     /\ served(r.status)
              /\ UNCHANGED <<active_effects, next_inst, superseded>>
           \/ /\ request.type = "StartEffect"
              /\ active_effects' = start_effect(active_effects, request.id,
                                                [inst |-> next_inst,
                                                 effect |-> request.argument])
              /\ superseded' = superseded \cup
                     (IF request.id \in DOMAIN active_effects
                      THEN {active_effects[request.id].inst} ELSE {})
              /\ next_inst' = next_inst + 1
              /\ served("Ok")
              /\ UNCHANGED <<universes, controllers>>
           \/ /\ request.type = "StopEffect"
              /\ active_effects' = stop_effect(active_effects, request.id)
              /\ superseded' = superseded \cup
                     (IF request.id \in DOMAIN active_effects
                      THEN {active_effects[request.id].inst} ELSE {})
              /\ served("Ok")
              /\ UNCHANGED <<universes, controllers, next_inst>>
           \/ /\ request.type = "SetChannels"
              /\ LET r == set_channels_command(universes, request.argument)
                 IN  /\ universes' = r.universes
                     /\ served(r.status)
              /\ UNCHANGED <<controllers, active_effects, next_inst, superseded>>
    /\ UNCHANGED <<messages_left, cancelled>>
    /\ RunUnchanged

\* The timer arm of the select; ArtnetManager::tick starts: it takes the map
\* of the active effects, which it will visit in some order.
TickBegin ==
    /\ AtAwait(run_loop)
    /\ artnet_alive
    /\ active_effects /= <<>>
    /\ \E order \in Orders(DOMAIN active_effects) :
           run_loop' = [pc |-> "tick", order |-> order, taken |-> <<active_effects>>,
                        failed |-> FALSE]
    /\ active_effects' = <<>>
    /\ UNCHANGED <<manager_request, manager_reply, messages_left, cancelled, universes,
                   controllers, artnet_alive, next_inst, superseded>>
    /\ RunUnchanged

\* The loop of ArtnetManager::tick ticks the next effect; an error ends the
\* tick with the map not moved back.
TickStep ==
    /\ run_loop.pc = "tick"
    /\ run_loop.order /= <<>>
    /\ LET id == run_loop.order[1]
           r == NodeTick(run_loop.taken[1][id].effect, universes, set_channel_log,
                         arith_overflow)
       IN  /\ universes' = r.universes
           /\ artnet_alive' = (r.status /= "panic")
           /\ run_loop' =
                  IF r.status = "ok"
                  THEN [run_loop EXCEPT !.order = Tail(@), !.taken[1][id].effect = r.node]
                  ELSE IF r.status = "panic" THEN [AtSelect EXCEPT !.pc = "stopped"]
                  ELSE [AtSelect EXCEPT !.failed = TRUE]
    /\ UNCHANGED <<manager_request, manager_reply, messages_left, cancelled, controllers,
                   active_effects, next_inst, superseded>>
    /\ RunUnchanged

\* Every effect was ticked: the map is moved back and the loop selects
\* again.
TickEnd ==
    /\ run_loop.pc = "tick"
    /\ run_loop.order = <<>>
    /\ active_effects' = run_loop.taken[1]
    /\ run_loop' = AtSelect
    /\ UNCHANGED <<manager_request, manager_reply, messages_left, cancelled, universes,
                   controllers, artnet_alive, next_inst, superseded>>
    /\ RunUnchanged

RunNext ==
    \/ RunSend
    \/ RunCancel
    \/ RunCancelled
    \/ RunHandleMessage
    \/ TickBegin
    \/ TickStep
    \/ TickEnd

RunSpec == RunInit /\ [][RunNext]_vars

(***************************************************************************)
(* Properties of a Fade.                                                   *)
(***************************************************************************)
Between(a, x, b) == (a <= x /\ x <= b) \/ (b <= x /\ x <= a)

\* The node driven on its own is a Fade.
FadeUnderTest == channel_delta = <<>> /\ node.kind = "Fade"

\* The channels of the Fade its target has a value for.
FadeChannels ==
    LET flat == FlatLights(node.lights)
    IN  {i \in 1 .. Len(flat) : TargetFor(node.target, flat[i].channel.channel_type) /= <<>>}

\* The bytes of channel i when the Fade was created, and those of its target.
StartValue(i) ==
    LET flat == FlatLights(node.lights)
    IN  GetChannel(init_universes, flat[i].universe_id, flat[i].channel).value

EndValue(i) == TargetFor(node.target, FlatLights(node.lights)[i].channel.channel_type)

StartEqualsTarget == \A i \in FadeChannels : StartValue(i) = EndValue(i)

\* The SetChannel calls made for channel i, in order.
WritesTo(i) ==
    LET flat == FlatLights(node.lights)
    IN  SelectSeq(set_channel_log,
            LAMBDA w : /\ w.universe_id = flat[i].universe_id
                       /\ w.channel_value.channel = flat[i].channel.channel
                       /\ w.channel_value.channel_type = flat[i].channel.channel_type)

\* Component k of channel i: its start byte followed by the bytes written.
ComponentPath(i, k) ==
    <<StartValue(i)[k]>> \o [j \in 1 .. Len(WritesTo(i)) |-> WritesTo(i)[j].channel_value.value[k]]

\* Channel i was written on each tick so far, up to ticks; every component
\* moved monotonically from its start to its target and, after ticks ticks,
\* the frame holds the target.
ChannelFaded(i) ==
    LET flat == FlatLights(node.lights)
    IN  /\ Len(WritesTo(i)) = Min(node_ticks, node.ticks)
        /\ \A k \in DOMAIN EndValue(i) :
            LET path == ComponentPath(i, k)
            IN  /\ \A j \in 1 .. Len(path) : Between(StartValue(i)[k], path[j], EndValue(i)[k])
                /\ \A j \in 1 .. Len(path) - 1 : Between(path[j], path[j + 1], EndValue(i)[k])
                /\ node_ticks >= node.ticks => path[Len(path)] = EndValue(i)[k]
        /\ node_ticks >= node.ticks =>
               GetChannel(universes, flat[i].universe_id, flat[i].channel).value = EndValue(i)

\* A DmxChannelDelta ticked on its own stays between start and target, moves
\* toward the target on its next tick, never wraps, and ends on the target.
DeltaFaded ==
    channel_delta /= <<>> =>
        LET d == channel_delta[1]
            s == delta_case[1]
            e == delta_case[2]
        IN  /\ Between(s, d.value, e)
            /\ ~arith_overflow
            /\ node_ticks < delta_case[3] => Between(d.value, DmxChannelDeltaTick(d).value, e)
            /\ node_ticks = delta_case[3] => d.value = e

\* C1, as stated: for every start byte, target byte and tick count N >= 1
\* every component of a Fade is written on each of exactly N ticks, moves
\* monotonically between start and target without wrapping and is written
\* with the target on tick N.
C1_FadeWritesOnEveryTick ==
    /\ (FadeUnderTest /\ node.ticks >= 1) =>
           (~arith_overflow /\ \A i \in FadeChannels : ChannelFaded(i))
    /\ DeltaFaded

\* C1, amended: the same, for a Fade of which at least one component starts
\* away from its target (the Fade that starts on its target on every
\* component writes nothing).
C1_NeededFadeWritesOnEveryTick ==
    /\ (FadeUnderTest /\ node.ticks >= 1 /\ ~StartEqualsTarget) =>
           (~arith_overflow /\ \A i \in FadeChannels : ChannelFaded(i))
    /\ DeltaFaded

\* A Fade of two channels in two universes, needed, after its last tick.
C1_Witness ==
    /\ FadeUnderTest
    /\ node.ticks >= 2
    /\ node_ticks = node.ticks
    /\ ~StartEqualsTarget
    /\ FadeChannels = {1, 2}
    /\ StartValue(1) /= EndValue(1)
    /\ Len(set_channel_log) = 2 * node.ticks

\* C2, as stated: a Fade whose start equals its target on every component of
\* every channel completes at its first tick without a tick being spent and
\* issues no SetChannel call.
C2_NoFadeNeededCompletesAtOnce ==
    (FadeUnderTest /\ node_ticks >= 1 /\ StartEqualsTarget) =>
        /\ tick_result = "ok"
        /\ IsDone(node)
        /\ node.state = <<>>
        /\ set_channel_log = <<>>
        /\ universes = init_universes

(***************************************************************************)
(* Properties of the effects of the Art-Net manager.                       *)
(***************************************************************************)
\* C3, as stated: after a tick the active-effects map holds no effect that
\* is done, and an effect that is done is never ticked.
C3_TickRemovesCompletedEffects ==
    /\ artnet_op = [op |-> "Tick", status |-> "ok"] =>
           \A id \in DOMAIN active_effects : ~IsDone(active_effects[id].effect)
    /\ ~done_ticked

\* C4: an effect replaced by StartEffect under its id (or stopped) is no
\* longer held and is never ticked again, the effect just started is the one
\* held under its id, and no effect is held under two ids.
C4_StartEffectReplaces ==
    /\ ~stale_ticked
    /\ \A id \in DOMAIN active_effects : active_effects[id].inst \notin superseded
    /\ \A id1 \in DOMAIN active_effects, id2 \in DOMAIN active_effects :
           active_effects[id1].inst = active_effects[id2].inst => id1 = id2
    /\ artnet_op.op = "StartEffect" =>
           \E id \in DOMAIN active_effects : active_effects[id].inst = next_inst - 1

\* The second effect started replaced the first under its id and has been
\* ticked since.
C4_Witness ==
    /\ artnet_op = [op |-> "Tick", status |-> "ok"]
    /\ superseded = {1}
    /\ \E id \in DOMAIN active_effects :
        /\ active_effects[id].inst = 2
        /\ active_effects[id].effect.current_tick >= 1

(***************************************************************************)
(* Properties of the Array manager.                                        *)
(***************************************************************************)
\* C5, as stated: a manager whose requester dropped the reply receiver keeps
\* running.
C5_ManagersSurviveDroppedReceiver == array_alive /\ artnet_alive

\* The last request served was an AddArray.
AddArrayServed == array_reply /= <<>> /\ array_reply[1].request.type = "AddArray"

\* C6: an AddArray that fails changes neither the arrays stored nor the
\* global effects.
C6_FailedAddArrayChangesNothing ==
    [][(/\ array_request /= <<>>
        /\ array_request' = <<>>
        /\ array_request[1].type = "AddArray"
        /\ array_reply'[1].result /= "Ok")
       => (arrays' = arrays /\ global_effects' = global_effects)]_vars

\* A failed AddArray for an id under which an array is stored.
C6_Witness ==
    /\ AddArrayServed
    /\ array_reply[1].result /= "Ok"
    /\ array_reply[1].request.array_id \in DOMAIN arrays
    /\ arrays[array_reply[1].request.array_id] /= array_reply[1].request.array

\* The <<universe, channel, role>> triples of the expansion of a lights
\* expression (none when the expansion fails).
GroupRoles(array, lights_list) ==
    LET r == static_get_array_light_channels(array, lights_list)
    IN  IF r.status /= "Ok" THEN {}
        ELSE UNION {{<<u, UniverseChannelUsages(r.result[u])[i][1],
                          UniverseChannelUsages(r.result[u])[i][2]>> :
                        i \in DOMAIN UniverseChannelUsages(r.result[u])} :
                    u \in DOMAIN r.result}

\* The array has a group all, and the expansion of all gives every channel
\* of every group, in its universe, its role.
Covered(array) ==
    /\ "all" \in DOMAIN array.lights
    /\ \A g \in DOMAIN array.lights :
           GroupRoles(array, array.lights[g]) \subseteq GroupRoles(array, array.lights["all"])

\* C7: every array stored has a group all that covers every channel of every
\* group with its role, and an AddArray for an array that has not is rejected.
C7_AllCoversEveryGroup ==
    /\ \A id \in DOMAIN arrays : Covered(arrays[id])
    /\ (AddArrayServed /\ ~Covered(array_reply[1].request.array)) =>
           array_reply[1].result /= "Ok"

\* An array whose group a has a channel all has not was rejected while an
\* array of two groups is stored.
C7_Witness ==
    /\ AddArrayServed
    /\ array_reply[1].result = "ArrayLightChannelNotInAllGroup"
    /\ \E id \in DOMAIN arrays : "a" \in DOMAIN arrays[id].lights

\* Some channel of some universe has two roles in the groups of the array.
RoleConflict(array) ==
    \E g1 \in DOMAIN array.lights, g2 \in DOMAIN array.lights :
        \E t1 \in GroupRoles(array, array.lights[g1]),
           t2 \in GroupRoles(array, array.lights[g2]) :
            t1[1] = t2[1] /\ t1[2] = t2[2] /\ t1[3] /= t2[3]

\* Every expansion verify_array_lights makes of the array succeeds.
Expandable(array) ==
    /\ "all" \in DOMAIN array.lights
    /\ \A g \in DOMAIN array.lights :
           static_get_array_light_channels(array, array.lights[g]).status = "Ok"

\* Some channel number has different roles in two universes of all.
CrossUniverseRoles(array) ==
    \E t1 \in GroupRoles(array, array.lights["all"]),
       t2 \in GroupRoles(array, array.lights["all"]) :
        t1[1] /= t2[1] /\ t1[2] = t2[2] /\ t1[3] /= t2[3]

\* C8: AddArray rejects an array in which a channel of a universe has two
\* roles, no such array is stored, and an array is not rejected for the roles
\* a channel number has in different universes: AddArray accepts the array
\* with default effects whose groups expand, are covered by all and give no
\* channel of a universe two roles.
C8_OneRolePerChannelOfUniverse ==
    /\ \A id \in DOMAIN arrays : ~RoleConflict(arrays[id])
    /\ AddArrayServed =>
           LET array == array_reply[1].request.array
           IN  /\ RoleConflict(array) => array_reply[1].result /= "Ok"
               /\ (/\ verify_array_effects(global_effects, array) = "Ok"
                   /\ Expandable(array)
                   /\ Covered(array)
                   /\ ~RoleConflict(array)) => array_reply[1].result = "Ok"

\* rgb:0,rgb:1 was rejected while an array is stored in which a channel
\* number has different roles in two universes.
C8_Witness ==
    /\ AddArrayServed
    /\ array_reply[1].result = "ArrayLightChannelUsageMismatch"
    /\ array_reply[1].request.array.lights["all"] =
           <<ChannelEntry("Rgb", 0), ChannelEntry("Rgb", 1)>>
    /\ \E id \in DOMAIN arrays : CrossUniverseRoles(arrays[id])

\* The groups the entries of a lights expression refer to.
ReferredGroups(array, lights_list) ==
    {lights_list[i].name : i \in {j \in DOMAIN lights_list : lights_list[j].kind = "group"}}
        \cap DOMAIN array.lights

\* The groups reached from the groups of S by following references.
RECURSIVE ReachedGroups(_, _)
ReachedGroups(array, S) ==
    LET next == S \cup UNION {ReferredGroups(array, array.lights[g]) : g \in S}
    IN  IF next = S THEN S ELSE ReachedGroups(array, next)

\* Some group refers to itself, directly or through other groups.
Cyclic(array) ==
    \E g \in DOMAIN array.lights :
        g \in ReachedGroups(array, ReferredGroups(array, array.lights[g]))

\* C9: every expansion AddArray makes ends with a stack of at most one more
\* than EXPANSION_STACK_LIMIT expressions, AddArray rejects every array in
\* which some group refers to itself directly or through other groups, and
\* no such array is stored.
C9_ExpansionEndsAndCyclesAreRejected ==
    /\ \A id \in DOMAIN arrays : ~Cyclic(arrays[id])
    /\ AddArrayServed =>
           /\ array_reply[1].deepest <= EXPANSION_STACK_LIMIT + 1
           /\ Cyclic(array_reply[1].request.array) => array_reply[1].result /= "Ok"

\* An array whose group a refers to itself and is not referred to by all was
\* rejected for the cycle.
C9_Witness ==
    /\ AddArrayServed
    /\ array_reply[1].result = "ArrayLightsCircularReference"
    /\ array_reply[1].deepest = EXPANSION_STACK_LIMIT + 1
    /\ "all" \in DOMAIN array_reply[1].request.array.lights
    /\ ReachedGroups(array_reply[1].request.array, {"all"}) = {"all"}

\* The <<uid, channel>> pairs of all: the channel entries a group referred
\* to by all has before its own first $ entry, uid being the universe all
\* switched to before the reference.
NestedAfterSwitch(array) ==
    LET L == array.lights["all"]
    IN  {<<L[i].name, [channel_type |-> array.lights[L[j].name][m].channel_type,
                       channel |-> array.lights[L[j].name][m].channel]>> :
            <<i, j, m>> \in
                {t \in (DOMAIN L) \X (DOMAIN L) \X (1 .. MaxEntries + 1) :
                    /\ t[1] < t[2]
                    /\ L[t[1]].kind = "universe"
                    /\ \A k \in t[1] + 1 .. t[2] - 1 : L[k].kind /= "universe"
                    /\ L[t[2]].kind = "group"
                    /\ L[t[2]].name \in DOMAIN array.lights
                    /\ t[3] \in DOMAIN array.lights[L[t[2]].name]
                    /\ array.lights[L[t[2]].name][t[3]].kind = "channel"
                    /\ \A k \in 1 .. t[3] - 1 :
                           array.lights[L[t[2]].name][k].kind /= "universe"}}

\* The <<uid, channel>> pairs of all: the channel entries of all itself that
\* follow a reference made after all switched to uid.
OwnAfterNested(array) ==
    LET L == array.lights["all"]
    IN  {<<L[t[1]].name, [channel_type |-> L[t[3]].channel_type,
                          channel |-> L[t[3]].channel]>> :
            t \in {t \in (DOMAIN L) \X (DOMAIN L) \X (DOMAIN L) :
                    /\ t[1] < t[2]
                    /\ t[2] < t[3]
                    /\ L[t[1]].kind = "universe"
                    /\ \A k \in t[1] + 1 .. t[3] - 1 : L[k].kind /= "universe"
                    /\ L[t[2]].kind = "group"
                    /\ L[t[3]].kind = "channel"}}

\* The expansion of @all the last AddArray made has the channel in the
\* universe.
PlacedIn(universe_id, channel) ==
    /\ universe_id \in DOMAIN verified_lights[1].result
    /\ \E i \in DOMAIN verified_lights[1].result[universe_id] :
           verified_lights[1].result[universe_id][i] = channel

AllExpanded ==
    /\ AddArrayServed
    /\ verified_lights /= <<>>
    /\ verified_lights[1].status = "Ok"

\* C10, as stated: the entries of a group referred to after a $uid entry
\* are placed in universe uid.
C10_NestedGroupInheritsUniverse ==
    AllExpanded =>
        \A p \in NestedAfterSwitch(array_reply[1].request.array) : PlacedIn(p[1], p[2])

\* C10, amended: the entries of a group referred to after a $uid entry are
\* placed in the default universe of the array (until the group switches
\* universe itself), and the entries that follow the reference in the
\* enclosing expression are placed in uid.
C10_NestedGroupStartsInDefaultUniverse ==
    AllExpanded =>
        /\ \A p \in NestedAfterSwitch(array_reply[1].request.array) :
               PlacedIn(array_reply[1].request.array.universe_id, p[2])
        /\ \A p \in OwnAfterNested(array_reply[1].request.array) : PlacedIn(p[1], p[2])

\* An array was accepted whose all switches to another universe than the
\* default, then refers to a group with a channel entry, then has a channel
\* entry of its own.
C10_Witness ==
    /\ AllExpanded
    /\ array_reply[1].result = "Ok"
    /\ \E p \in NestedAfterSwitch(array_reply[1].request.array) :
           p[1] /= array_reply[1].request.array.universe_id
    /\ OwnAfterNested(array_reply[1].request.array) /= {}

(***************************************************************************)
(* TargetValue::get_dimmed_value applied to a target and a dimming amount. *)
(***************************************************************************)
\* The targets dimmed: every single byte alone, and the targets of sample
\* bytes with any of the three families absent.
DimmedTargets ==
    {[NoTarget EXCEPT !.single = <<b>>] : b \in Bytes}
        \cup {[single |-> s, rgb |-> r, tri_white |-> w] :
                 s \in Opt({1}),
                 r \in {<<>>} \cup {<<b, U8_MODULUS - 1 - b, 128>> : b \in SampleBytes},
                 w \in {<<>>} \cup {<<3, b, 77>> : b \in SampleBytes}}

DimInit ==
    /\ ArrayManagerNew
    /\ array_request = <<>>
    /\ requests_left = 0
    /\ universes = <<>>
    /\ set_channel_log = <<>>
    /\ arith_overflow = FALSE
    /\ ArtnetManagerNew
    /\ NoNodeDriven

\* A call of get_dimmed_value, the first one, for one of targets and one of
\* amounts.
GetDimmedValueOf(targets, amounts) ==
    /\ dimmed = <<>>
    /\ \E target \in targets, dimming_amount \in amounts :
        dimmed' = <<[target |-> target, dimming_amount |-> dimming_amount,
                     result |-> get_dimmed_value(target, dimming_amount)]>>
    /\ UNCHANGED <<value_vars, service_vars, added, unsent, array_vars, frame_vars, node_vars,
                   manager_vars>>

GetDimmedValue == GetDimmedValueOf(DimmedTargets, 0 .. DIMMING_AMOUNT_MAX)

DimNext == GetDimmedValue

\* The dimming amounts a command can carry: DimmingAmount is usize, and no
\* code compares the amount of a command with DIMMING_AMOUNT_MAX.
CommandAmounts == 0 .. MaxDimmingAmount

\* get_dimmed_value called for a target of one single byte with the amount
\* of a command.
CommandDimNext ==
    GetDimmedValueOf({[NoTarget EXCEPT !.single = <<b>>] : b \in Bytes}, CommandAmounts)

CommandDimSpec == DimInit /\ [][CommandDimNext]_vars

DimSpec == DimInit /\ [][DimNext]_vars

(***************************************************************************)
(* Value expansion.                                                        *)
(***************************************************************************)
\* The texts of at most n characters drawn from chars.
TextsOf(chars, n) == UNION {[1..k -> chars] : k \in 0..n}

\* The text of a value expression: name alone (default = <<>>) or name=default.
Quoted(name, default) ==
    <<Backquote>> \o name \o (IF default = <<>> THEN <<>> ELSE <<"=">> \o default[1])
        \o <<Backquote>>

\* The names and the defaults (<<>>: none) of the expressions that fit in a
\* text given to expand_values.
ExpressionNames == TextsOf(ValueChars \ {Backquote, "="}, MaxValueLen - 2)
ExpressionDefaults ==
    {<<>>} \cup {<<d>> : d \in TextsOf(ValueChars \ {Backquote}, MaxValueLen - 3)}

\* What the expression is to expand to for the array a1 in the current tables.
Resolution(name, default) ==
    IF "a1" \in DOMAIN values /\ name \in DOMAIN values["a1"]
    THEN ExpandResult("Ok", values["a1"][name])
    ELSE IF name \in DOMAIN global_values THEN ExpandResult("Ok", global_values[name])
    ELSE IF default /= <<>> THEN ExpandResult("Ok", default[1])
    ELSE ExpandResult("ArrayValueNotFound", <<>>)

Families == {"single", "rgb", "tri_white"}

\* C12: for every target byte b and dimming amount d in 0..1000, each dimmed
\* component is floor(b * d / 1000); d = 1000 returns the target unchanged,
\* d = 0 returns zeros, and a family absent from the target stays absent.
C12_DimmingIsLinear ==
    dimmed /= <<>> =>
        LET call == dimmed[1]
        IN  /\ \A f \in Families :
                /\ DOMAIN call.result[f] = DOMAIN call.target[f]
                /\ \A i \in DOMAIN call.target[f] :
                       /\ call.result[f][i] \in Bytes
                       /\ call.result[f][i] * 1000 <= call.target[f][i] * call.dimming_amount
                       /\ call.target[f][i] * call.dimming_amount
                              < (call.result[f][i] + 1) * 1000
            /\ call.dimming_amount = 1000 => call.result = call.target
            /\ call.dimming_amount = 0 =>
                   \A f \in Families : \A i \in DOMAIN call.result[f] : call.result[f][i] = 0

\* A target with an absent family was dimmed to a fraction that truncates.
C12_Witness ==
    /\ dimmed /= <<>>
    /\ dimmed[1].dimming_amount = 500
    /\ dimmed[1].target = [single |-> <<1>>, rgb |-> <<>>, tri_white |-> <<3, 255, 77>>]
    /\ dimmed[1].result = [single |-> <<0>>, rgb |-> <<>>, tri_white |-> <<1, 127, 38>>]

----------------------------------------------------------------------------
\* The Art-Net packet of a universe.

RoundUpEven(c) == IF c % 2 = 0 THEN c ELSE c + 1

\* Bytes first .. last of a packet, counted from 0 as the protocol does.
PacketBytes(packet, first, last) == SubSeq(packet, first + 1, last + 1)

\* The packet is the ArtDmx packet of the definition, whatever its sequence
\* byte and its DMX data.
PacketOf(packet, definition) ==
    LET region == RoundUpEven(definition.channels)
    IN  /\ PacketBytes(packet, 0, 7) = <<65, 114, 116, 45, 78, 101, 116, 0>>
        /\ PacketBytes(packet, 8, 9) = <<0, 80>>
        /\ PacketBytes(packet, 10, 11) = <<0, 20>>
        /\ PacketBytes(packet, 13, 13) = <<0>>
        /\ PacketBytes(packet, 14, 14) = <<definition.subnet * 16 + definition.universe>>
        /\ PacketBytes(packet, 15, 15) = <<definition.net>>
        /\ PacketBytes(packet, 16, 17) = <<region \div 256, region % 256>>
        /\ Len(packet) = 18 + region
        /\ region % 2 = 0
        /\ region <= 512

\* The header of a packet but its sequence byte, and the packet's length.
HeaderOf(packet) ==
    <<PacketBytes(packet, 0, 11), PacketBytes(packet, 13, 17), Len(packet)>>

\* C13: every universe accepted by AddUniverse has the packet header and the
\* packet length of its definition, with an even DMX region of at most 512
\* bytes, and no request but one that adds the universe anew changes the
\* header or the length of a universe that exists.
C13_PacketHeader ==
    /\ [](\A universe_id \in DOMAIN universes :
            /\ universe_id \in DOMAIN added
            /\ PacketOf(universes[universe_id].packet_bytes, added[universe_id]))
    /\ [][\A universe_id \in DOMAIN universes \cap DOMAIN universes' :
              artnet_op'.op /= "AddUniverse" =>
                  HeaderOf(universes'[universe_id].packet_bytes)
                      = HeaderOf(universes[universe_id].packet_bytes)]_vars

\* A universe of an odd channel count, in the highest net, subnet and
\* universe, has been written to.
C13_Witness ==
    /\ "u0" \in DOMAIN universes
    /\ added["u0"].channels % 2 = 1
    /\ added["u0"].net = 127
    /\ artnet_op = [op |-> "SetChannel", status |-> "Ok"]
    /\ universes["u0"].packet_bytes[DMX_DATA_OFFSET + 2] = 1

----------------------------------------------------------------------------
\* The transmission of the universes by the tick.

\* The sequence byte of a universe, which every transmission advances.
SequenceByte(univs, universe_id) == univs[universe_id].packet_bytes[DMX_SEQ_OFFSET + 1]

\* C14, as stated: a universe that was written to since it was last sent is
\* sent by the next tick that runs, which leaves it sent and not written to.
C14_ModifiedUniverseSentOnNextTick ==
    [][\A universe_id \in DOMAIN unsent \cap DOMAIN universes :
          (artnet_op'.op = "Tick" /\ unsent[universe_id].written) =>
              /\ unsent'[universe_id] = JustSent
              /\ SequenceByte(universes', universe_id)
                     /= SequenceByte(universes, universe_id)]_vars

\* C15, as stated: a tick does not send a universe that was not written to
\* and was sent fewer than 80 ticks ago, and no universe goes 80 ticks in a
\* row without being sent.
C15_IdleUniverseSentEvery80Ticks ==
    /\ [](\A universe_id \in DOMAIN unsent :
            unsent[universe_id].ticks < SEND_UNMODIFIED_UNIVERSE_EVERY)
    /\ [][\A universe_id \in DOMAIN unsent \cap DOMAIN universes :
              (/\ artnet_op'.op = "Tick"
               /\ ~unsent[universe_id].written
               /\ unsent[universe_id].ticks + 1 < SEND_UNMODIFIED_UNIVERSE_EVERY) =>
                  SequenceByte(universes', universe_id)
                      = SequenceByte(universes, universe_id)]_vars

----------------------------------------------------------------------------
\* The sequence byte.

\* C16, as stated: a Send request whose packet left the socket advances the
\* sequence byte of the universe by one modulo 256, one whose packet did not
\* leaves it as it was, and no other request to a universe changes it.
C16_SequenceByteWraps ==
    [][\A universe_id \in DOMAIN universes \cap DOMAIN universes' :
          /\ (artnet_op'.op = "Send" /\ artnet_op'.status \in {"Ok", "panic"}) =>
                 SequenceByte(universes', universe_id)
                     = (SequenceByte(universes, universe_id) + 1) % U8_MODULUS
          /\ (artnet_op'.op = "Send" /\ artnet_op'.status = "IoError") =>
                 SequenceByte(universes', universe_id)
                     = SequenceByte(universes, universe_id)
          /\ artnet_op'.op \notin {"Send", "AddUniverse"} =>
                 SequenceByte(universes', universe_id)
                     = SequenceByte(universes, universe_id)]_vars

----------------------------------------------------------------------------
\* The controller table.

\* The controllers the universes of the manager address.
AddressedControllers == {universes[universe_id].controller : universe_id \in DOMAIN universes}

\* C17, as stated: the controller table has an entry for an IP exactly when
\* a universe addresses that IP, and every entry is of a live controller.
C17_ControllerTableMatchesUniverses ==
    /\ controllers = AddressedControllers
    /\ \A ip \in controllers : ControllerLive(universes, ip)

----------------------------------------------------------------------------
\* SetChannel.

\* The addresses of the DMX region a channel value takes: one for Single,
\* three for Rgb and TriWhite.
ComponentAddresses(v) ==
    {v.channel + k : k \in 0 .. (IF v.channel_type = "Single" THEN 0 ELSE 2)}

\* The length of the DMX region of a packet: what follows its 18 header bytes.
DmxRegionLen(packet) == Len(packet) - 18

\* C18: a SetChannel request to a universe is served with Ok exactly when
\* every address of the value lies inside the DMX region of the universe;
\* it then stores every component of the value at its address and changes
\* no other byte of the packet, header included.  Otherwise it is served
\* with InvalidChannel and the packet stays as it was.
C18_SetChannelWritesItsBytesOnly ==
    [][\A v \in FrameValues, receiver_dropped \in BOOLEAN :
          (/\ "u0" \in DOMAIN universes
           /\ artnet_op'.op = "SetChannel"
           /\ SetChannels("SetChannel", "u0", <<v>>, receiver_dropped)) =>
              IF \A a \in ComponentAddresses(v) :
                     a < DmxRegionLen(universes["u0"].packet_bytes)
              THEN /\ artnet_op'.status = "Ok"
                   /\ Len(universes'["u0"].packet_bytes) = Len(universes["u0"].packet_bytes)
                   /\ \A i \in 1 .. 18 :
                          universes'["u0"].packet_bytes[i] = universes["u0"].packet_bytes[i]
                   /\ \A a \in 0 .. (DmxRegionLen(universes["u0"].packet_bytes) - 1) :
                          universes'["u0"].packet_bytes[18 + a + 1] =
                              IF a \in ComponentAddresses(v)
                              THEN v.value[a - v.channel + 1]
                              ELSE universes["u0"].packet_bytes[18 + a + 1]
              ELSE /\ artnet_op'.status = "InvalidChannel"
                   /\ universes' = universes]_vars

\* A universe whose channels 1 to 3 took an Rgb value has refused a value
\* that reaches past its DMX region.
C18_Witness ==
    /\ "u0" \in DOMAIN universes
    /\ Len(universes["u0"].packet_bytes) = DMX_DATA_OFFSET + FrameChannels
    /\ SubSeq(universes["u0"].packet_bytes, DMX_DATA_OFFSET + FrameChannels - 2,
              DMX_DATA_OFFSET + FrameChannels) = <<1, 2, 3>>
    /\ artnet_op = [op |-> "SetChannel", status |-> "InvalidChannel"]

----------------------------------------------------------------------------
\* The Set command.

\* The families the dimmer values of a target name.
TargetFamilies(target) == {target[i].channel_type : i \in DOMAIN target}

\* The components a target names for a family.
FamilyValue(target, family) ==
    target[CHOOSE i \in DOMAIN target : target[i].channel_type = family].value

\* A component scaled by the dimming amount of a command, if it gives one.
Scaled(b, dimming_amount) ==
    IF dimming_amount = <<>> THEN b ELSE (b * dimming_amount[1]) \div 1000

\* The command has a universe that exists, lists only channels that lie
\* inside its DMX region, and has a target that names no family twice.
WellFormedCommand(parameters) ==
    /\ parameters.universe_id \in DOMAIN universes
    /\ \A i \in DOMAIN parameters.channels :
           \A a \in ComponentAddresses(parameters.channels[i]) :
               a < DmxRegionLen(universes[parameters.universe_id].packet_bytes)
    /\ Cardinality(TargetFamilies(parameters.target)) = Len(parameters.target)

----------------------------------------------------------------------------
\* The Sequence node.

\* The tick counts of the children of a Sequence, added up.
RECURSIVE SumOfTicks(_, _)
SumOfTicks(nodes, k) == IF k = 0 THEN 0 ELSE nodes[k].ticks + SumOfTicks(nodes, k - 1)

\* C20: a Sequence of Delays of n1..nk ticks (each at least 1) is done
\* exactly from its (n1+...+nk)th tick on; the children before the current
\* one are done and those after it were never ticked; and a tick of a
\* Sequence that is not done ticks its current child once, ticks no other
\* child, and moves to the next child exactly if the current one is done.
C20_SequenceTicksChildrenInTurn ==
    /\ [](node.kind = "Sequence" =>
            /\ IsDone(node) <=> node_ticks >= SumOfTicks(node.nodes, Len(node.nodes))
            /\ IsDone(node) <=> node.current_node >= Len(node.nodes)
            /\ \A i \in DOMAIN node.nodes :
                   /\ i <= node.current_node => IsDone(node.nodes[i])
                   /\ i > node.current_node + 1 => node.nodes[i].current_tick = 0
            /\ node_ticks = SumOfTicks(node.nodes, node.current_node)
                   + (IF node.current_node < Len(node.nodes)
                      THEN node.nodes[node.current_node + 1].current_tick ELSE 0)
                   + (IF IsDone(node)
                      THEN node_ticks - SumOfTicks(node.nodes, Len(node.nodes)) ELSE 0))
    /\ [][(node.kind = "Sequence" /\ node_ticks' = node_ticks + 1) =>
              IF IsDone(node) THEN node' = node
              ELSE LET c == node.current_node + 1
                   IN  /\ node'.nodes[c].current_tick = node.nodes[c].current_tick + 1
                       /\ \A i \in DOMAIN node.nodes \ {c} : node'.nodes[i] = node.nodes[i]
                       /\ node'.current_node =
                              IF IsDone(node'.nodes[c]) THEN c ELSE c - 1]_vars

\* A Sequence of three Delays of different tick counts has just become done.
C20_Witness ==
    /\ node.kind = "Sequence"
    /\ Len(node.nodes) = 3
    /\ node.nodes[1].ticks = MaxTicks
    /\ node.nodes[2].ticks = 1
    /\ node.nodes[3].ticks = 2
    /\ IsDone(node)
    /\ node_ticks = MaxTicks + 3

----------------------------------------------------------------------------
\* The Parallel node.

\* The largest tick count of the children of a Parallel.
RECURSIVE MaxOfTicks(_, _)
MaxOfTicks(nodes, k) ==
    IF k = 0 THEN 0
    ELSE IF nodes[k].ticks >= MaxOfTicks(nodes, k - 1) THEN nodes[k].ticks
    ELSE MaxOfTicks(nodes, k - 1)

\* C21: every tick of a Parallel ticks each of its children, so a Delay
\* child of n ticks has counted every parent tick up to n; the Parallel is
\* done exactly when all its children are, which for Delays of n1..nk ticks
\* is from the max(n1..nk)th parent tick on, and from the start if it has no
\* child.
C21_ParallelTicksEveryChild ==
    node.kind = "Parallel" =>
        /\ \A i \in DOMAIN node.nodes :
               node.nodes[i].current_tick
                   = IF node_ticks <= node.nodes[i].ticks THEN node_ticks
                     ELSE node.nodes[i].ticks
        /\ IsDone(node) <=> \A i \in DOMAIN node.nodes : IsDone(node.nodes[i])
        /\ IsDone(node) <=> node_ticks >= MaxOfTicks(node.nodes, Len(node.nodes))
        /\ node.nodes = <<>> => IsDone(node)

\* A Parallel of three Delays of different tick counts has just become done.
C21_Witness ==
    /\ node.kind = "Parallel"
    /\ Len(node.nodes) = 3
    /\ node.nodes[1].ticks = 1
    /\ node.nodes[2].ticks = MaxTicks
    /\ node.nodes[3].ticks = 2
    /\ IsDone(node)
    /\ node_ticks = MaxTicks

----------------------------------------------------------------------------
\* Ticks of nodes that are done.

\* C22, as stated: a tick of a node for which is_done() holds returns
\* success, issues no SetChannel, changes no universe frame and leaves the
\* node done; a node compiled with a tick count of 0 is such a node.
C22_TickOfDoneNodeIsIdempotent ==
    [][(channel_delta = <<>> /\ IsDone(node) /\ node_ticks' = node_ticks + 1) =>
            /\ tick_result' = "ok"
            /\ set_channel_log' = set_channel_log
            /\ universes' = universes
            /\ IsDone(node')]_vars

----------------------------------------------------------------------------
\* The values of a command.

\* The table of an array, empty when the manager holds none for it.
TableOf(vals, array_id) == IF array_id \in DOMAIN vals THEN vals[array_id] ELSE <<>>

\* The InitializeArrayValues requests a step of the manager may have served.
Initialized(array_id, symbol_table) ==
    /\ values' /= values
    /\ \E names \in Orders(DOMAIN symbol_table) :
           values' = initialize_array_values(values, array_id, symbol_table, names)

\* C24, as stated: after InitializeArrayValues(a, T) the table of the array
\* a is T, so that a name bound before and absent from T is bound no more.
C24_ValuesReplaceTheTable ==
    [][\A array_id \in ArrayIds, symbol_table \in CommandTables :
          Initialized(array_id, symbol_table) =>
              TableOf(values', array_id) = symbol_table]_vars

\* C24, amended: after InitializeArrayValues(a, T) the table of the array a
\* binds every name of T to its value in T and every other name as it was
\* bound before, and the tables of the other arrays are as they were.
C24_ValuesAreMergedIntoTheTable ==
    [][\A array_id \in ArrayIds, symbol_table \in CommandTables :
          Initialized(array_id, symbol_table) =>
              /\ DOMAIN TableOf(values', array_id)
                     = DOMAIN TableOf(values, array_id) \cup DOMAIN symbol_table
              /\ \A name \in DOMAIN TableOf(values', array_id) :
                     TableOf(values', array_id)[name]
                         = IF name \in DOMAIN symbol_table THEN symbol_table[name]
                           ELSE TableOf(values, array_id)[name]
              /\ \A other \in ArrayIds \ {array_id} :
                     TableOf(values', other) = TableOf(values, other)]_vars

\* The array a1 holds a name bound by one request and another name bound by
\* a later request.
C24_Witness ==
    /\ "a1" \in DOMAIN values
    /\ DOMAIN values["a1"] = {<<"n">>, <<"m">>}
    /\ values["a1"][<<"n">>] = <<"x">>
    /\ values["a1"][<<"m">>] = <<>>

----------------------------------------------------------------------------
\* The effect of an array for a usage.

\* The lookup served last was made for an array the manager holds, with no
\* preset or with a preset of the array.
LookupServed ==
    /\ array_reply /= <<>>
    /\ array_reply[1].array_id \in DOMAIN arrays
    /\ array_reply[1].preset_number /= <<>> =>
           array_reply[1].preset_number[1] < Len(arrays[array_reply[1].array_id].presets)

\* The effect id the lookup served last was made for: the one the preset
\* names for the usage, else the one the array names for it.
LookupEffectId ==
    LET array == arrays[array_reply[1].array_id]
        usage == array_reply[1].usage
        named == IF array_reply[1].preset_number = <<>> THEN <<>>
                 ELSE UsageField(array.presets[array_reply[1].preset_number[1] + 1], usage)
    IN  IF named /= <<>> THEN named[1] ELSE UsageField(array, usage)

\* C27, as stated: the effect id is resolved in the effects of the array,
\* then in the global effects, and when neither defines it the built-in
\* default effect of the usage is taken.
C27_UndefinedEffectFallsBackToDefault ==
    LookupServed =>
        LET array == arrays[array_reply[1].array_id]
            result == array_reply[1].result
        IN  /\ result.status = "Ok"
            /\ result.definition[1] =
                   IF LookupEffectId \in array.effects THEN ArrayEffect(LookupEffectId)
                   ELSE IF LookupEffectId \in global_effects THEN GlobalEffect(LookupEffectId)
                   ELSE DefaultEffect(array_reply[1].usage)

\* C27, amended: the effect id is resolved in the effects of the array, then
\* in the global effects; when neither defines it the built-in default
\* effect of the usage is taken if the id is the one the array itself names
\* for the usage, and the lookup fails with EffectNotFound otherwise.
C27_DefaultOnlyForTheArraysOwnEffectId ==
    LookupServed =>
        LET array == arrays[array_reply[1].array_id]
            usage == array_reply[1].usage
            result == array_reply[1].result
        IN  IF LookupEffectId \in array.effects
            THEN result = [status |-> "Ok", definition |-> <<ArrayEffect(LookupEffectId)>>]
            ELSE IF LookupEffectId \in global_effects
            THEN result = [status |-> "Ok", definition |-> <<GlobalEffect(LookupEffectId)>>]
            ELSE IF LookupEffectId = UsageField(array, usage)
            THEN result = [status |-> "Ok", definition |-> <<DefaultEffect(usage)>>]
            ELSE result = [status |-> "EffectNotFound", definition |-> <<>>]

\* The effect blink, named by the preset, is defined by the array and
\* globally, and the one of the array was found.
C27_Witness ==
    /\ LookupServed
    /\ array_reply[1].preset_number = <<0>>
    /\ LookupEffectId = "blink"
    /\ "blink" \in global_effects
    /\ "blink" \in arrays["a1"].effects
    /\ arrays["a1"].on = "on"
    /\ array_reply[1].result.definition = <<ArrayEffect("blink")>>

----------------------------------------------------------------------------
\* A tick in which an effect fails.

\* C26, as stated: a tick that returns the error of one effect loses none of
\* the other active effects; they are still in the map after it, each with
\* the node it had or the node its tick left.
C26_FailedTickKeepsOtherEffects ==
    [][(artnet_op'.op = "Tick" /\ artnet_op'.status = "error") =>
            Cardinality(DOMAIN active_effects \ DOMAIN active_effects') <= 1]_vars
(***************************************************************************)
(* Properties of the MQTT ingress and egress.                              *)
(***************************************************************************)
\* The broker message handled last, or being handled.
Handled == subscriber.message[1]

\* The message is an On, Off or Dim command whose parameters parse.
OnOffHandled ==
    /\ subscriber.message /= <<>>
    /\ Len(Handled.topic) = 3
    /\ Handled.topic[2] = "Command"
    /\ Handled.topic[3] \in EffectUsages
    /\ ParsesAs(Handled.payload, "OnOffCommandParameters")

\* C23: a broker message on DMX/Error, DMX/LastError, DMX/Active or
\* DMX/Version is ignored: its handling sends no request to a manager and
\* returns Ok, so that no Error event follows.
C23_ServiceTopicsAreIgnored ==
    (/\ subscriber.message /= <<>>
     /\ Len(Handled.topic) = 2
     /\ Handled.topic[2] \in {"Error", "LastError", "Active", "Version"})
        => (subscriber.sent = <<>> /\ subscriber.result = "Ok")

\* The requests an On, Off or Dim command sends when nothing fails.
OnOffRequests(command_parameters) ==
    (IF command_parameters.values /= <<>> THEN <<"InitializeArrayValues">> ELSE <<>>)
        \o <<"GetEffectRuntime", "StartEffect">>

\* The requests sent are the first ones of that order, each after the reply
\* to the one before, and StartEffect only after GetEffectRuntime replied Ok.
OnOffOrder ==
    OnOffHandled =>
        LET requests == OnOffRequests(Handled.payload.value[1])
            sent == subscriber.sent
        IN  /\ Len(sent) <= Len(requests)
            /\ sent = SubSeq(requests, 1, Len(sent))
            /\ Len(sent) <= Len(subscriber.replies) + 1
            /\ (subscriber.stage /= "") => (Len(sent) = Len(subscriber.replies) + 1)
            /\ \A k \in DOMAIN sent :
                   sent[k] = "StartEffect" => subscriber.replies[k - 1] = "Ok"

\* The default On effect of an array the manager holds is compiled with the
\* ticks the command's values give, and is not compiled when they give no
\* number.
OnOffUsesCommandValues ==
    (/\ OnOffHandled
     /\ subscriber.stage = "GetEffectRuntime"
     /\ manager_reply /= <<>>
     /\ Handled.topic[3] = "On"
     /\ Handled.payload.value[1].values /= <<>>
     /\ Handled.payload.value[1].array_id \in DOMAIN arrays
     /\ "on" \notin arrays[Handled.payload.value[1].array_id].effects
     /\ "on" \notin global_effects)
        => LET text == Handled.payload.value[1].values[1][UsageTicksName("On")]
               reply == manager_reply[1]
           IN  IF ParsesAsUsize(text)
               THEN reply.status = "Ok" /\ reply.node[1].kind = "Fade"
                    /\ reply.node[1].ticks = UsizeOf(text)
               ELSE reply.status = "ValueError"

\* An effect is started or replaced only by a StartEffect request, with the
\* node the request carries, and removed only by a StopEffect request.
EffectsChangeByRequestOnly ==
    active_effects' /= active_effects =>
        /\ manager_request /= <<>>
        /\ \/ /\ manager_request[1].type = "StartEffect"
              /\ subscriber.replies[Len(subscriber.replies)] = "Ok"
              /\ active_effects'[manager_request[1].id].effect = manager_request[1].argument
              /\ \A id \in DOMAIN active_effects \ {manager_request[1].id} :
                     id \in DOMAIN active_effects' /\ active_effects'[id] = active_effects[id]
           \/ manager_request[1].type = "StopEffect"

\* The StartEffect request carries the node GetEffectRuntime replied with.
StartCarriesCompiledNode ==
    (manager_reply /= <<>> /\ subscriber.stage = "GetEffectRuntime"
     /\ manager_request' /= <<>>)
        => (/\ manager_reply[1].status = "Ok"
            /\ manager_request'[1].type = "StartEffect"
            /\ manager_request'[1].argument = manager_reply[1].node[1])

\* C25: an On, Off or Dim command sends InitializeArrayValues (if it has
\* values), then GetEffectRuntime, then StartEffect, each after the reply to
\* the one before; the effect is compiled against the command's values;
\* StartEffect is sent, with the compiled node, only when the compilation
\* succeeded, and the active effects change by StartEffect and StopEffect
\* requests only.
C25_ValuesThenCompileThenStart ==
    /\ [](OnOffOrder /\ OnOffUsesCommandValues)
    /\ [][EffectsChangeByRequestOnly /\ StartCarriesCompiledNode]_vars

\* An On command with values was handled to its end and its effect runs
\* with the ticks the values gave.
C25_Witness ==
    /\ OnOffHandled
    /\ Handled.topic[3] = "On"
    /\ Handled.payload.value[1].values /= <<>>
    /\ subscriber.sent = <<"InitializeArrayValues", "GetEffectRuntime", "StartEffect">>
    /\ subscriber.result = "Ok"
    /\ "a1" \in DOMAIN active_effects
    /\ active_effects["a1"].effect.kind = "Fade"
    /\ active_effects["a1"].effect.ticks = 3

\* C29: the handling of a broker message that ends hands exactly one Error
\* event to the publisher if it failed, and none if it succeeded.
C29_FailedMessageCausesOneErrorEvent ==
    [][(subscriber' /= subscriber /\ subscriber'.stage = "")
          => Len(publisher_queue') - Len(publisher_queue)
                 = (IF subscriber'.result = "Ok" THEN 0 ELSE 1)]_vars

(***************************************************************************)
(* Properties of the start of a Fade.                                      *)
(***************************************************************************)
\* The Fade that takes its first tick when the node is ticked next: the node
\* itself, or the current child of a Sequence.
RECURSIVE PendingFade(_)
PendingFade(n) ==
    IF n.kind = "Fade"
    THEN IF n.state = <<>> /\ n.current_tick < n.ticks THEN <<n>> ELSE <<>>
    ELSE IF n.kind = "Sequence" /\ n.current_node < Len(n.nodes)
    THEN PendingFade(n.nodes[n.current_node + 1])
    ELSE <<>>

\* The value of channel 0 of u0 in the frame.
FrameValue(univs) == GetChannel(univs, "u0", Single(0)).value[1]

\* C30: a Fade takes its start values from the frame at its own first
\* tick: when the one active effect is, or has come in its Sequence to, a
\* Fade that was not ticked yet, the tick writes the value one step away
\* from the value the frame held just before that tick, whatever the frame
\* held when the effect was started.
C30_FadeStartsFromFrameAtFirstTick ==
    [][\A id \in EffectIds :
         (/\ artnet_op'.op = "Tick"
          /\ artnet_op'.status = "ok"
          /\ DOMAIN active_effects = {id}
          /\ "u0" \in DOMAIN universes
          /\ PendingFade(active_effects[id].effect) /= <<>>)
             => LET fade == PendingFade(active_effects[id].effect)[1]
                IN  FrameValue(universes') =
                        DmxChannelDeltaTick(
                            DmxChannelDeltaNew(FrameValue(universes), fade.target.single[1],
                                               fade.ticks)).value]_vars

\* A Fade that followed a Delay in a Sequence has taken its first tick from
\* the value 200, which was written by request after the effect was started
\* on a frame of zeros.
C30_Witness ==
    /\ DOMAIN active_effects = {"a"}
    /\ active_effects["a"].effect.kind = "Sequence"
    /\ active_effects["a"].effect.current_node = 1
    /\ active_effects["a"].effect.nodes[1].kind = "Delay"
    /\ active_effects["a"].effect.nodes[2].current_tick = 1
    /\ "u0" \in DOMAIN universes
    /\ FrameValue(universes) =
           DmxChannelDeltaTick(DmxChannelDeltaNew(200, U8_MODULUS - 1, FadeTicks)).value

RuntimeIsResolved ==
    (/\ OnOffHandled
     /\ subscriber.stage = "GetEffectRuntime"
     /\ manager_reply /= <<>>
     /\ manager_reply[1].status = "Ok"
     /\ manager_reply[1].node[1].kind = "Fade")
        => LET runtime == manager_reply[1].node[1]
               command == Handled.payload.value[1]
           IN  /\ runtime.lights = <<[universe_id |-> "u0", channels |-> <<Rgb(0)>>]>>
               /\ runtime.ticks \in Nat
               /\ runtime.current_tick = 0
               /\ runtime.state = <<>>
               /\ runtime.target =
                      get_dimmed_value(default_effect(Handled.topic[3]).target,
                                       IF command.dimming_amount = <<>> THEN DIMMING_AMOUNT_MAX
                                       ELSE command.dimming_amount[1])

\* A step that changes the arrays, the global effects or a symbol table
\* changes no active effect and no runtime on its way to the Art-Net
\* manager.
RuntimeIsKept ==
    (\/ arrays' /= arrays
     \/ global_effects' /= global_effects
     \/ values' /= values
     \/ global_values' /= global_values)
        => (/\ active_effects' = active_effects
            /\ manager_request /= <<>>
            /\ manager_request[1].to = "array")

\* C31: the runtime GetEffectRuntime returned holds the light channels, the
\* tick count and the dimmed target resolved at compile time, and later
\* AddArray, RemoveArray, AddEffect, RemoveEffect and value changes alter no
\* runtime, started or not.
C31_RuntimeKeepsCompiledValues ==
    []RuntimeIsResolved /\ [][RuntimeIsKept]_vars

\* The effect of an On command whose values gave 3 ticks is active with
\* these ticks after the array it was compiled for was removed.
C31_Witness ==
    /\ "a1" \in DOMAIN active_effects
    /\ active_effects["a1"].effect.kind = "Fade"
    /\ active_effects["a1"].effect.ticks = 3
    /\ active_effects["a1"].effect.lights = <<[universe_id |-> "u0", channels |-> <<Rgb(0)>>]>>
    /\ "a1" \notin DOMAIN arrays
    /\ subscriber.result = "Ok"

-----------------------------------------------------------------------------
\* Rejected requests of the Art-Net manager.

\* C32, as stated: an AddUniverse that is rejected for its definition leaves
\* the universe map, with the universe the id may name and its frame, and
\* the controller table as they were before the request.
C32_RejectedAddUniverseChangesNothing ==
    [][(/\ artnet_op'.op = "AddUniverse"
        /\ artnet_op'.status = "InvalidDefinition")
           => (/\ universes' = universes
               /\ controllers' = controllers)]_vars

\* C33, as stated: a SetChannels request that fails leaves every byte of
\* every universe frame, the channels listed before the failing one
\* included, with the value it had before the request.
C33_FailedSetChannelsWritesNothing ==
    [][(/\ artnet_op'.op \in {"SetChannels", "Set"}
        /\ artnet_op'.status \notin {"Ok", "panic"})
           => universes' = universes]_vars

-----------------------------------------------------------------------------
\* The expansion stack.

\* The groups of the arrays with nested groups: those of the array of
\* test_verify_array_lights and two more.
ChainGroups == <<"all", "loop", "circle", "inner", "last">>

\* The lights expressions of group k of such an array: its own channel,
\* alone or followed by a reference to the next group or to loop, or such a
\* reference alone (for every group but all).
ChainLightsLists(k) ==
    LET own == ChannelEntry("Rgb", (k - 1) * 3)
        referred == {GroupEntry(ChainGroups[j]) :
                        j \in {i \in DOMAIN ChainGroups :
                                   i = k + 1 \/ ChainGroups[i] = "loop"}}
    IN  {<<own>>} \cup {<<own, g>> : g \in referred}
            \cup (IF k = 1 THEN {} ELSE {<<g>> : g \in referred})

\* The array whose groups have the expressions of lists, in the order of
\* ChainGroups.
ChainArray(lists) ==
    DmxArray([g \in {ChainGroups[k] : k \in DOMAIN ChainGroups} |->
                 lists[CHOOSE k \in DOMAIN ChainGroups : ChainGroups[k] = g]],
             {"on", "off"}, <<>>)

RECURSIVE ChainLists(_)
ChainLists(k) ==
    IF k = 0 THEN {<<>>}
    ELSE {Append(lists, l) : lists \in ChainLists(k - 1), l \in ChainLightsLists(k)}

ChainArrays == {ChainArray(lists) : lists \in ChainLists(Len(ChainGroups))}

\* An AddArray request for an array with nested groups is in flight.
ChainInit ==
    /\ ArrayManagerNew
    /\ \E array \in ChainArrays :
           array_request = <<AddArrayRequest("test2", array, FALSE)>>
    /\ requests_left = 0
    /\ universes = <<>>
    /\ set_channel_log = <<>>
    /\ arith_overflow = FALSE
    /\ ArtnetManagerNew
    /\ NoNodeDriven

ChainNext == AddArray

ChainSpec == ChainInit /\ [][ChainNext]_vars

\* The expressions verify_array_lights expands: the literal @all, then the
\* expression of every group.
StartingExpressions(array) ==
    {<<GroupEntry("all")>>} \cup {array.lights[g] : g \in DOMAIN array.lights}

\* The number of expressions the expansion of an expression of an acyclic
\* array has on the stack at its deepest: itself and the deepest of the
\* groups it refers to.
RECURSIVE NestingDepth(_, _)
NestingDepth(array, lights_list) ==
    LET nested == {NestingDepth(array, array.lights[g]) :
                      g \in ReferredGroups(array, lights_list)}
    IN  1 + (IF nested = {} THEN 0 ELSE CHOOSE d \in nested : \A e \in nested : e <= d)

\* The text entry between two expressions of a stack written out.
Arrow == [kind |-> "->", name |-> "", channel_type |-> "", channel |-> 0]

\* Display for ExpansionStack: the expressions in the order they were
\* pushed, with " -> " between them.
RECURSIVE ExpansionStackToString(_)
ExpansionStackToString(stack) ==
    IF stack = <<>> THEN <<>>
    ELSE IF Len(stack) = 1 THEN stack[1]
    ELSE stack[1] \o <<Arrow>> \o ExpansionStackToString(Tail(stack))

\* The expressions of a stack, one after the other.
RECURSIVE Expressions(_)
Expressions(stack) ==
    IF stack = <<>> THEN <<>> ELSE stack[1] \o Expressions(Tail(stack))

IsArrow(entry) == entry = Arrow

IsNoArrow(entry) == entry /= Arrow

\* The array of the last request of test_verify_array_lights, and the stack
\* its error message lists.
TestLoopArray ==
    DmxArray([g \in {ChainGroups[k] : k \in DOMAIN ChainGroups} |->
                 CASE g = "all" -> <<ChannelEntry("Rgb", 0), GroupEntry("loop")>>
                   [] g = "loop" -> <<ChannelEntry("Rgb", 3), GroupEntry("circle")>>
                   [] g = "circle" -> <<GroupEntry("loop")>>
                   [] g = "inner" -> <<ChannelEntry("Rgb", 9)>>
                   [] OTHER -> <<ChannelEntry("Rgb", 12)>>],
             {"on", "off"}, <<>>)

TestLoopMessage ==
    <<GroupEntry("all"), Arrow,
      ChannelEntry("Rgb", 0), GroupEntry("loop"), Arrow,
      ChannelEntry("Rgb", 3), GroupEntry("circle"), Arrow,
      GroupEntry("loop"), Arrow,
      ChannelEntry("Rgb", 3), GroupEntry("circle"), Arrow,
      GroupEntry("loop")>>

\* Every expression of the stack after the first is the expression of a
\* group the one before it refers to.
StackFollowsReferences(array, stack) ==
    \A k \in DOMAIN stack \ {1} :
        \E g \in ReferredGroups(array, stack[k - 1]) : array.lights[g] = stack[k]

\* C34: the AddArray of an acyclic array is answered with the circular
\* reference error only if some expression it expands is nested more than
\* EXPANSION_STACK_LIMIT deep, the starting expression counted, and always
\* if @all is; a circular reference error of the expansion of @all comes
\* with a stack of one more than EXPANSION_STACK_LIMIT expressions that
\* starts with the literal @all and follows the references, and an
\* expansion that succeeded pushed no more than EXPANSION_STACK_LIMIT.
C34_SixthExpressionIsCircular ==
    (AddArrayServed /\ array_reply[1].request.array \in ChainArrays) =>
        LET array == array_reply[1].request.array
            circular == array_reply[1].result = "ArrayLightsCircularReference"
            all_lights == verified_lights[1]
        IN  /\ ~Cyclic(array) =>
                /\ circular =>
                       \E l \in StartingExpressions(array) :
                           NestingDepth(array, l) > EXPANSION_STACK_LIMIT
                /\ NestingDepth(array, <<GroupEntry("all")>>) > EXPANSION_STACK_LIMIT
                       => circular
                /\ NestingDepth(array, <<GroupEntry("all")>>) <= EXPANSION_STACK_LIMIT
                       => all_lights.status = "Ok"
            /\ all_lights.status = "ArrayLightsCircularReference" =>
                /\ circular
                /\ Len(all_lights.stack) = EXPANSION_STACK_LIMIT + 1
                /\ all_lights.stack[1] = <<GroupEntry("all")>>
                /\ StackFollowsReferences(array, all_lights.stack)
                /\ SelectSeq(ExpansionStackToString(all_lights.stack), IsNoArrow)
                       = Expressions(all_lights.stack)
                /\ Len(SelectSeq(ExpansionStackToString(all_lights.stack), IsArrow))
                       = EXPANSION_STACK_LIMIT
                /\ array = TestLoopArray =>
                       ExpansionStackToString(all_lights.stack) = TestLoopMessage
            /\ all_lights.status = "Ok" =>
                /\ all_lights.deepest <= EXPANSION_STACK_LIMIT
                /\ all_lights.deepest = NestingDepth(array, <<GroupEntry("all")>>)

\* An array in which no group refers to itself, all referring to loop, loop
\* to circle, circle to inner and inner to last, was rejected for a
\* circular reference.
C34_Witness ==
    /\ AddArrayServed
    /\ array_reply[1].result = "ArrayLightsCircularReference"
    /\ ~Cyclic(array_reply[1].request.array)
    /\ verified_lights[1].stack[EXPANSION_STACK_LIMIT + 1] = <<ChannelEntry("Rgb", 12)>>
    /\ arrays = <<>>

\* The array of test_verify_array_lights was rejected with the message of
\* the test.
C34_TestMessage ==
    /\ AddArrayServed
    /\ array_reply[1].request.array = TestLoopArray
    /\ array_reply[1].result = "ArrayLightsCircularReference"
    /\ ExpansionStackToString(verified_lights[1].stack) = TestLoopMessage

-----------------------------------------------------------------------------
\* Arrays without effects.

\* C35, as stated: the AddArray of an array that declares no effects, while
\* no global effect exists, is rejected only for its light groups; the
\* array whose light groups are valid is stored.
C35_ArrayWithoutEffectsIsAccepted ==
    (/\ AddArrayServed
     /\ array_reply[1].request.array.effects = {}
     /\ global_effects = {}) =>
        LET array == array_reply[1].request.array
        IN  /\ array_reply[1].result \in verify_array_lights(array)
            /\ array_reply[1].result = "Ok" =>
                   /\ array_reply[1].request.array_id \in DOMAIN arrays
                   /\ arrays[array_reply[1].request.array_id] = array

-----------------------------------------------------------------------------
\* Channels a Fade has no target for.

\* The channels of the Fade whose family has no value in its target.
UntargetedChannels == (1 .. Len(FlatLights(node.lights))) \ FadeChannels

\* C36: no SetChannel is issued for a channel of a Fade whose family has no
\* value in the target, its bytes stay as they were when the Fade was
\* created, and a tick fails only for a Fade of 0 ticks that has a channel
\* to fade.
C36_UntargetedChannelsAreLeftAlone ==
    FadeUnderTest =>
        /\ \A i \in UntargetedChannels :
               LET light == FlatLights(node.lights)[i]
               IN  /\ WritesTo(i) = <<>>
                   /\ GetChannel(universes, light.universe_id, light.channel).value
                          = StartValue(i)
        /\ tick_result /= "ok" => (node.ticks = 0 /\ FadeChannels /= {})

\* A Fade of a Single and an Rgb channel whose target names no rgb value
\* made its last tick: the Single channel holds the target, the Rgb channel
\* the bytes it started with.
C36_Witness ==
    /\ FadeUnderTest
    /\ node.ticks >= 2
    /\ node_ticks = node.ticks
    /\ FadeChannels = {1}
    /\ UntargetedChannels = {2}
    /\ StartValue(1) /= EndValue(1)
    /\ StartValue(2) /= Zeros(3)
    /\ Len(set_channel_log) = node.ticks
    /\ tick_result = "ok"

-----------------------------------------------------------------------------
\* StopEffect.

\* A call of stop_effect succeeds, writes no frame and issues no SetChannel;
\* it removes at most one effect and leaves the others as they are.
StopEffectRemovesOnly ==
    artnet_op'.op = "StopEffect" =>
        /\ artnet_op'.status = "Ok"
        /\ universes' = universes
        /\ set_channel_log' = set_channel_log
        /\ DOMAIN active_effects' \subseteq DOMAIN active_effects
        /\ Cardinality(DOMAIN active_effects \ DOMAIN active_effects') <= 1
        /\ \A id \in DOMAIN active_effects' : active_effects'[id] = active_effects[id]
        /\ \A id \in DOMAIN active_effects : active_effects[id].inst \in superseded'
               <=> (id \notin DOMAIN active_effects' \/ active_effects[id].inst \in superseded)

\* C37: an effect that was stopped is never ticked again, so it issues no
\* further SetChannel; StopEffect itself changes no byte of a frame and no
\* other effect, and succeeds for an id that has no effect without changing
\* anything.
C37_StoppedEffectIsNeverTicked ==
    []~stale_ticked /\ [][StopEffectRemovesOnly]_vars

\* The Fade under id a was stopped halfway, after the one tick the effect
\* under id b also made: b is still active and the frame holds the byte of
\* that tick.
C37_Witness ==
    /\ artnet_op = [op |-> "StopEffect", status |-> "Ok"]
    /\ superseded = {1}
    /\ DOMAIN active_effects = {"b"}
    /\ active_effects["b"].effect.current_tick = 1
    /\ Len(set_channel_log) = 1
    /\ "u0" \in DOMAIN universes
    /\ universes["u0"].packet_bytes[DMX_DATA_OFFSET + 1] \notin {0, U8_MODULUS - 1}

-----------------------------------------------------------------------------
\* RemoveArray.

\* The Array manager serves a RemoveArray request in this step.
RemoveArrayServed ==
    /\ manager_request /= <<>>
    /\ manager_request[1].type = "RemoveArray"
    /\ manager_request' = <<>>

\* C38: RemoveArray(a) is answered with success whether or not a is stored;
\* afterwards a is not stored, every other array is stored as before, and
\* the global effects, the global values and the symbol table of every
\* array, the one of a included, are as before.
C38_RemoveArrayRemovesTheDeclarationOnly ==
    [][RemoveArrayServed =>
          /\ manager_reply' = <<Reply("Ok", <<>>)>>
          /\ DOMAIN arrays' = DOMAIN arrays \ {manager_request[1].id}
          /\ \A id \in DOMAIN arrays' : arrays'[id] = arrays[id]
          /\ global_effects' = global_effects
          /\ global_values' = global_values
          /\ values' = values]_vars

\* Array a1 was removed after a command gave it a symbol table: the table
\* is still recorded.
C38_Witness ==
    /\ subscriber.message /= <<>>
    /\ Handled.topic = <<"DMX", "Array", "a1">>
    /\ Handled.payload = EmptyPayload
    /\ subscriber.result = "Ok"
    /\ "a1" \notin DOMAIN arrays
    /\ "a1" \in DOMAIN values
    /\ values["a1"] /= <<>>

-----------------------------------------------------------------------------
\* Dimming amounts of commands.

\* C40, as stated: for every dimming amount a command can carry, each
\* dimmed byte is the quotient itself, lies in 0..255 and is not smaller
\* than the byte a lower amount gives.
C40_DimmedByteDoesNotWrap ==
    dimmed /= <<>> =>
        LET call == dimmed[1]
        IN  \A f \in Families : \A i \in DOMAIN call.target[f] :
                /\ call.result[f][i] \in Bytes
                /\ call.result[f][i]
                       = (call.target[f][i] * call.dimming_amount) \div DIMMING_DIVISOR
                /\ call.dimming_amount > 0 =>
                       get_dimmed_value(call.target, call.dimming_amount - 1)[f][i]
                           <= call.result[f][i]

(***************************************************************************)
(* One MQTT session: the subscriber polls the event loop of the client and  *)
(* handles the broker messages it returns, the publisher takes the Error    *)
(* events and publishes them through the client, whose requests wait in a   *)
(* bounded queue until a poll of the event loop takes them.  What           *)
(* handle_message does with the managers is left out: a message is handled  *)
(* to its result in the step that receives it.                              *)
(***************************************************************************)
Publication(topic, retain, message) == [topic |-> topic, retain |-> retain, message |-> message]

\* The requests connect_to_mqtt_broker hands to the client before the event
\* loop is polled.
ConnectRequests ==
    <<Publication(<<"DMX", "Active">>, TRUE, "true"),
      Publication(<<"DMX", "Version">>, TRUE, "version"),
      Publication(<<"DMX", "#">>, FALSE, "subscribe")>>

\* The broker messages of the session: one that fails and one the service
\* ignores.
SessionMessages ==
    {Message(<<"DMX", "Other">>, EmptyPayload), Message(<<"DMX", "Error">>, InvalidPayload)}

\* The event loop has taken the subscribe request.
Subscribed == \A i \in DOMAIN request_queue : request_queue[i].message /= "subscribe"

SessionInit ==
    /\ arrays = <<>>
    /\ global_effects = {}
    /\ array_alive = TRUE
    /\ array_reply = <<>>
    /\ verified_lights = <<>>
    /\ values = <<>>
    /\ global_values = <<>>
    /\ array_request = <<>>
    /\ requests_left = 0
    /\ universes = <<>>
    /\ set_channel_log = <<>>
    /\ arith_overflow = FALSE
    /\ ArtnetManagerNew
    /\ NoNodeDriven
    /\ expanded = <<>>
    /\ dimmed = <<>>
    /\ added = <<>>
    /\ unsent = <<>>
    /\ subscriber = IdleSubscriber
    /\ manager_request = <<>>
    /\ manager_reply = <<>>
    /\ publisher_queue = <<>>
    /\ published = <<>>
    /\ messages_left = MaxBurst
    /\ run_loop = AtSelect
    /\ cancelled = FALSE
    /\ request_queue = ConnectRequests
    /\ publisher = AtRecv

SessionUnchanged ==
    UNCHANGED <<manager_request, manager_reply, run_loop, cancelled, value_vars, dimmed,
                added, unsent, array_vars, frame_vars, node_vars, manager_vars>>

\* event_loop.poll() returns a broker message and handle_message runs; when
\* it returns an error, run goes on to send the Error event.
PollIncoming ==
    /\ subscriber.stage = ""
    /\ Subscribed
    /\ messages_left > 0
    /\ messages_left' = messages_left - 1
    /\ \E message \in SessionMessages :
        LET step == HandleMessageStart(message.topic, message.payload)
        IN  subscriber' = [IdleSubscriber EXCEPT
                              !.message = <<message>>, !.result = step.result,
                              !.stage = IF step.result = "Ok" THEN "" ELSE "SendError"]
    /\ UNCHANGED <<publisher_queue, published, request_queue, publisher>>
    /\ SessionUnchanged

\* to_mqtt_publisher_tx.send(Error(..)).await: it completes when the queue
\* of the publisher has room.
SendError ==
    /\ subscriber.stage = "SendError"
    /\ Len(publisher_queue) < QUEUE_DEPTH
    /\ publisher_queue' = Append(publisher_queue, subscriber.result)
    /\ subscriber' = [subscriber EXCEPT !.stage = ""]
    /\ UNCHANGED <<published, messages_left, request_queue, publisher>>
    /\ SessionUnchanged

\* event_loop.poll() takes a request of the client and sends it to the
\* broker.
PollRequest ==
    /\ subscriber.stage = ""
    /\ request_queue /= <<>>
    /\ request_queue' = Tail(request_queue)
    /\ published' = Append(published, Head(request_queue))
    /\ UNCHANGED <<subscriber, publisher_queue, messages_left, publisher>>
    /\ SessionUnchanged

\* to_mqtt_publisher_rx.recv().await of mqtt_publisher::session.
PublisherRecv ==
    /\ publisher.pc = "recv"
    /\ publisher_queue /= <<>>
    /\ publisher' = [pc |-> "LastError", message |-> Head(publisher_queue)]
    /\ publisher_queue' = Tail(publisher_queue)
    /\ UNCHANGED <<subscriber, published, messages_left, request_queue>>
    /\ SessionUnchanged

\* mqtt_client.publish(..).await of mqtt_publisher::session, first on
\* DMX/LastError and then on DMX/Error: it completes when the request queue
\* of the client has room.
PublisherPublish ==
    /\ publisher.pc \in {"LastError", "Error"}
    /\ Len(request_queue) < CLIENT_REQUEST_CAPACITY
    /\ request_queue' =
           Append(request_queue,
                  Publication(<<"DMX", publisher.pc>>, publisher.pc = "LastError",
                              publisher.message))
    /\ publisher' = IF publisher.pc = "LastError" THEN [publisher EXCEPT !.pc = "Error"]
                    ELSE AtRecv
    /\ UNCHANGED <<subscriber, publisher_queue, published, messages_left>>
    /\ SessionUnchanged

SessionNext ==
    \/ PollIncoming
    \/ SendError
    \/ PollRequest
    \/ PublisherRecv
    \/ PublisherPublish

SessionSpec == SessionInit /\ [][SessionNext]_vars

\* The subscriber waits for room in the queue of the publisher.
IngressBlocked == subscriber.stage = "SendError" /\ Len(publisher_queue) = QUEUE_DEPTH

\* The publisher waits for room in the request queue of the client.
EgressBlocked ==
    publisher.pc \in {"LastError", "Error"} /\ Len(request_queue) = CLIENT_REQUEST_CAPACITY

\* C39, as stated: the subscriber is never stuck sending an Error event
\* while the publisher is stuck publishing into the request queue that only
\* the subscriber's polls drain.
C39_IngressAndEgressNeverDeadlock == ~(IngressBlocked /\ EgressBlocked)

====
